---- MODULE Spec2Model ----
(***************************************************************************)
(* CustomIDE: the Python syntax highlighter (src/syntax.py) and the        *)
(* structural key handling of the code editor (src/additional_qwidgets.py) *)
(* as state machines over one text buffer.                                 *)
(*                                                                         *)
(* Offsets are 0-based as in the source; At(s, i) reads s[i].  A text is a *)
(* sequence of one-character strings.                                      *)
(***************************************************************************)
EXTENDS Integers, Sequences, FiniteSets, TLC

VARIABLES
    text,             \* the QPlainTextEdit document, as a sequence of characters
    anchor,           \* QTextCursor.anchor() of the editor's cursor
    position,         \* QTextCursor.position() of the editor's cursor
    hist,             \* the key presses handled so far, each with the buffer before it
    userState,        \* QTextBlock.userState() of every block (continuation-state-out)
    stateIn,          \* previousBlockState() as read by the last highlight of every block
    formats,          \* the style of every character of every block (setFormat)
    string_locations, \* PythonHighlighter.string_locations
    relexAt,          \* the block QSyntaxHighlighter highlights next (1-based)
    relexEnd,         \* the last block of the changed range
    relexForce,       \* forceHighlightOfNextBlock
    everOpen,         \* some line has held an unterminated triple-quoted literal
    pc,               \* where the call of highlightBlock stepped through stands
    hb,               \* its locals: the match at hand and the brace scan
    lint,             \* the diagnostics: the lists of the editor and the highlighter,
                      \* the gutter and the linting worker
    file_tabs         \* QCodeFileTabs: the tabs, the selected file and the temp files

vars == <<text, anchor, position, hist, userState, stateIn, formats,
          string_locations, relexAt, relexEnd, relexForce, everOpen,
          pc, hb, lint, file_tabs>>

editorVars == <<anchor, position, hist>>
highlightVars == <<userState, stateIn, formats, string_locations,
                   relexAt, relexEnd, relexForce>>
ideVars == <<lint, file_tabs>>

\* No diagnostics anywhere (lines 298-299 of additional_qwidgets.py, line 127
\* of syntax.py) and nothing painted in the gutter yet.
NoLint ==
    [linting_results |-> <<>>,
     line_number_area_linting_tooltips |-> <<>>,
     gutter |-> <<>>,
     highlighter_results |-> <<>>,
     ranges |-> <<>>,
     underline |-> <<>>,
     highlighter |-> "None",
     editor_of |-> <<>>,
     highlighter_of |-> <<>>,
     worker |-> [pc |-> "sleep", current_file |-> <<>>, code |-> <<>>,
                 linting_results |-> <<>>, of |-> <<>>, cycle |-> 0],
     finished |-> 0,
     gui |-> "idle"]

\* No tab open.
\* QCodeFileTabs.__init__ (lines 861-869): no tab, no temp file.  tabs is the
\* tab bar from left to right, None is <<>> and a value v is <<v>>; disk holds
\* the files of the project, seen the text last shown for a tab name, raised
\* the exception that ended a handler.
NoTabs ==
    [tabs |-> <<>>,
     currentIndex |-> -1,
     last_tab_index |-> <<>>,
     last_file_selected |-> <<>>,
     temp_files |-> <<>>,
     disk |-> <<>>,
     seen |-> <<>>,
     raised |-> "none"]

IdeIdle == lint = NoLint /\ file_tabs = NoTabs

-----------------------------------------------------------------------------
(* Characters and Python's string operations *)

SQ == "'"
DQ == "\""
BS == "\\"
NL == "\n"
SP == " "
TAB == "\t"

Min(a, b) == IF a < b THEN a ELSE b
Max(a, b) == IF a > b THEN a ELSE b
Minimum(S) == CHOOSE x \in S : \A y \in S : x <= y

At(s, i) == s[i + 1]

\* s[a:b] of Python: negative indexes count from the end, all are clamped.
PyIndex(n, i) == IF i < 0 THEN Max(i + n, 0) ELSE Min(i, n)
PySlice(s, a, b) == SubSeq(s, PyIndex(Len(s), a) + 1, PyIndex(Len(s), b))

\* s.find(ch, start) of Python for a one-character ch.
PyFind(s, ch, start) ==
    LET from == PyIndex(Len(s), start)
        hits == {i \in from..(Len(s) - 1) : At(s, i) = ch}
    IN  IF hits = {} THEN -1 ELSE Minimum(hits)

\* s.count(ch) of Python for a one-character ch.
PyCount(s, ch) == Cardinality({i \in 1..Len(s) : s[i] = ch})

StartsAt(s, p, pat) ==
    /\ p >= 0
    /\ p + Len(pat) <= Len(s)
    /\ SubSeq(s, p + 1, p + Len(pat)) = pat

Repeat(ch, n) == [i \in 1..n |-> ch]

-----------------------------------------------------------------------------
(* The document as blocks (QTextDocument): lines separated by "\n" *)

RECURSIVE SplitLines(_)
SplitLines(s) ==
    LET nl == PyFind(s, NL, 0)
    IN  IF nl = -1 THEN <<s>>
        ELSE <<SubSeq(s, 1, nl)>> \o SplitLines(SubSeq(s, nl + 2, Len(s)))

RECURSIVE JoinLines(_)
JoinLines(ls) ==
    IF Len(ls) = 0 THEN <<>>
    ELSE IF Len(ls) = 1 THEN ls[1]
    ELSE ls[1] \o <<NL>> \o JoinLines(Tail(ls))

blockCount(s) == Len(SplitLines(s))

\* QTextBlock.position() of block b (1-based b, 0-based offset).
RECURSIVE BlockPosition(_, _)
BlockPosition(ls, b) ==
    IF b <= 1 THEN 0 ELSE BlockPosition(ls, b - 1) + Len(ls[b - 1]) + 1

\* QTextCursor.blockNumber() (0-based) and positionInBlock() of offset p.
blockNumber(s, p) == PyCount(SubSeq(s, 1, p), NL)
positionInBlock(s, p) ==
    LET before == {i \in 1..p : s[i] = NL}
    IN  IF before = {} THEN p ELSE p - (CHOOSE i \in before : \A j \in before : j <= i)

-----------------------------------------------------------------------------
(* QRegExp matching of the patterns PythonHighlighter builds *)

\* self.string_prefix_regex and the two patterns highlightBlock compares it with.
string_prefix_regex ==
    "(r|u|R|U|f|F|fr|Fr|fR|FR|rf|rF|Rf|RF|b|B|br|Br|bR|BR|rb|rB|Rb|RB)?"
DQStringPattern == "\"[^\"\\\\]*(\\\\.[^\"\\\\]*)*\""
SQStringPattern == "'[^'\\\\]*(\\\\.[^'\\\\]*)*'"
\* The pattern of the string rule as registered in self.rules.
StringRulePattern == string_prefix_regex \o DQStringPattern

\* The alternatives of string_prefix_regex.
string_prefixes ==
    { <<"r">>, <<"u">>, <<"R">>, <<"U">>, <<"f">>, <<"F">>,
      <<"f", "r">>, <<"F", "r">>, <<"f", "R">>, <<"F", "R">>,
      <<"r", "f">>, <<"r", "F">>, <<"R", "f">>, <<"R", "F">>,
      <<"b">>, <<"B">>,
      <<"b", "r">>, <<"B", "r">>, <<"b", "R">>, <<"B", "R">>,
      <<"r", "b">>, <<"r", "B">>, <<"R", "b">>, <<"R", "B">> }

NoMatch == [idx |-> -1, len |-> -1, cap1 |-> <<>>, q |-> ""]

\* The leftmost of the positions `hits`, or -1: indexIn's result.
FirstOf(hits) == IF hits = {} THEN -1 ELSE Minimum(hits)

\* Length of the prefix that lets  (prefix)?<pat>  match at p, or -1.
PrefixLenAt(s, p, pat) ==
    IF StartsAt(s, p, pat) THEN 0
    ELSE IF p >= 0 /\ p + 1 <= Len(s) /\ SubSeq(s, p + 1, p + 1) \in string_prefixes
            /\ StartsAt(s, p + 1, pat) THEN 1
    ELSE IF p >= 0 /\ p + 2 <= Len(s) /\ SubSeq(s, p + 1, p + 2) \in string_prefixes
            /\ StartsAt(s, p + 2, pat) THEN 2
    ELSE -1

\* The match of  (prefix)?<body>  found at p with a prefix of k characters
\* and a body of n characters: pos(0), matchedLength(), cap(1).
MatchAt(s, q, p, k, n) ==
    IF p < 0 THEN NoMatch
    ELSE [idx |-> p, len |-> k + n, cap1 |-> SubSeq(s, p + 1, p + k), q |-> q]

\* QRegExp(string_prefix_regex + q q q).indexIn(s, from).
TriMatchAt(s, q, p) == MatchAt(s, q, p, PrefixLenAt(s, p, <<q, q, q>>), 3)
TriIndexIn(s, q, from) ==
    TriMatchAt(s, q, FirstOf({p \in from..(Len(s) - 1) :
                                from >= 0 /\ PrefixLenAt(s, p, <<q, q, q>>) # -1}))

\* The closing quote of  q[^q\\]*(\\.[^q\\]*)*q  whose body starts at i, or -1.
RECURSIVE CloseQuote(_, _, _)
CloseQuote(s, q, i) ==
    IF i >= Len(s) THEN -1
    ELSE IF At(s, i) = q THEN i
    ELSE IF At(s, i) = BS
         THEN IF i + 1 < Len(s) THEN CloseQuote(s, q, i + 2) ELSE -1
    ELSE CloseQuote(s, q, i + 1)

\* Length of the single-line string (without its prefix of k characters)
\* that starts at p + k, or -1.
StrBodyLen(s, q, p, k) ==
    IF k = -1 \/ CloseQuote(s, q, p + k + 1) = -1 THEN -1
    ELSE CloseQuote(s, q, p + k + 1) + 1 - (p + k)

StrMatchesAt(s, q, p) == StrBodyLen(s, q, p, PrefixLenAt(s, p, <<q>>)) # -1

StrMatchAt(s, q, p, k) == MatchAt(s, q, p, k, StrBodyLen(s, q, p, k))

\* QRegExp(string_prefix_regex + single-line string with quote q).indexIn(s, from).
StrFound(s, q, p) == StrMatchAt(s, q, p, PrefixLenAt(s, p, <<q>>))
StrIndexIn(s, q, from) ==
    StrFound(s, q, FirstOf({p \in from..(Len(s) - 1) :
                              from >= 0 /\ StrMatchesAt(s, q, p)}))

\* get_index of highlightBlock for the string rule: the earlier of the
\* double-quote pattern (ind1) and its single-quote copy (ind2).
Earlier(m1, m2) ==
    IF m1.idx = -1 THEN m2
    ELSE IF m2.idx = -1 THEN m1
    ELSE IF m1.idx < m2.idx THEN m1 ELSE m2

get_index(s, start_at) ==
    Earlier(StrIndexIn(s, DQ, start_at), StrIndexIn(s, SQ, start_at))

-----------------------------------------------------------------------------
(* highlightBlock: styles, string locations and the continuation state *)

\* QSyntaxHighlighter.setFormat(start, count, format) on the block's characters.
SetFormat(fmt, start, count, style) ==
    IF start < 0 \/ start >= Len(fmt) THEN fmt
    ELSE [i \in 1..Len(fmt) |->
            IF i - 1 >= start /\ i - 1 < Min(start + count, Len(fmt))
            THEN style ELSE fmt[i]]

\* PythonHighlighter.braces.  Of the rules registered before the string rule,
\* only the brace rules can match a text made of quotes, braces and the
\* letters a and f; the rules registered after it need a backslash or a '#'.
braces == {"(", ")", "[", "]", "{", "}"}
BraceRules(s) == [i \in 1..Len(s) |-> IF s[i] \in braces THEN "brace" ELSE "none"]

\* The indexes highlightBlock puts in self.triple_quotes_within_strings: the
\* test compares the rule's pattern, which carries the prefix, with the two
\* patterns without it.
RuleIsPlainString(pattern) == pattern \in {DQStringPattern, SQStringPattern}

InnerIndex(t1, t2) == IF t1.idx = -1 THEN t2.idx ELSE t1.idx

TripleQuoteIndexes(inner_index) ==
    IF inner_index # -1 THEN inner_index..(inner_index + 2) ELSE {}

TripleQuotesAfter(s, index) ==
    IF index >= 0 /\ RuleIsPlainString(StringRulePattern)
    THEN TripleQuoteIndexes(InnerIndex(TriIndexIn(s, SQ, index + 1),
                                       TriIndexIn(s, DQ, index + 1)))
    ELSE {}

triple_quotes_within_strings(s) == TripleQuotesAfter(s, get_index(s, 0).idx)

\* The brace-matching scan of an interpolated string, one loop test per step.
\*   pc = "outer": the test of  while open_index != -1 and close_index != -1
\*   pc = "inner": the test of  while inside_indices.count("{") - ...count("}")
\*   pc = "advance": the body of that loop
\* to_format stops growing at 2 * len + 2 entries, which no scan that ends reaches.
FScanAt(fs, at, o, tf) ==
    [pc |-> at, open_index |-> o, close_index |-> PyFind(fs, "}", o), to_format |-> tf]

FScanInit(fs) == FScanAt(fs, "outer", PyFind(fs, "{", 0), <<0>>)

Unbalanced(inside_indices) ==
    PyCount(inside_indices, "{") - PyCount(inside_indices, "}") # 0

FScanStep(fs, sc) ==
    IF sc.pc = "outer"
    THEN IF sc.open_index # -1 /\ sc.close_index # -1
         THEN [sc EXCEPT !.pc = "inner"]
         ELSE [sc EXCEPT !.pc = "done", !.to_format = Append(@, Len(fs))]
    ELSE IF sc.pc = "advance"
    THEN [sc EXCEPT !.pc = "inner",
                    !.close_index = PyFind(fs, "}", sc.close_index + 1)]
    ELSE IF Unbalanced(PySlice(fs, sc.open_index + 1, sc.close_index))
         THEN [sc EXCEPT !.pc = "advance"]
         ELSE FScanAt(fs, "outer", PyFind(fs, "{", sc.close_index),
                      IF Len(sc.to_format) >= 2 * Len(fs) + 2 THEN sc.to_format
                      ELSE sc.to_format \o <<sc.open_index, sc.close_index + 1>>)

\* The scan run to its end; a scan that repeats a (pc, open_index, close_index)
\* never ends, and one that ends takes fewer than 3 * (len + 2)^2 steps.
RECURSIVE FScanRun(_, _, _)
FScanRun(fs, sc, fuel) ==
    IF sc.pc = "done" THEN sc
    ELSE IF fuel = 0 THEN [sc EXCEPT !.pc = "hang"]
    ELSE FScanRun(fs, FScanStep(fs, sc), fuel - 1)

FScan(fs) == FScanRun(fs, FScanInit(fs), 3 * (Len(fs) + 2) * (Len(fs) + 2))

\* to_format as (start, end) tuples, and the setFormat calls made for them.
Pairs(tf) == [i \in 1..(Len(tf) \div 2) |-> <<tf[2 * i - 1], tf[2 * i]>>]

KeywordAt(fmt, cond, at) == IF cond THEN SetFormat(fmt, at, 1, "keyword") ELSE fmt

FormatRegion(fmt, index, n, tup) ==
    KeywordAt(KeywordAt(SetFormat(fmt, index + tup[1], tup[2] - tup[1], "string"),
                        tup[1] # 0, index + tup[1] - 1),
              tup[2] - n # 0, index + tup[2])

RECURSIVE FormatRegions(_, _, _, _)
FormatRegions(fmt, index, n, pairs) ==
    IF pairs = <<>> THEN fmt
    ELSE FormatRegions(FormatRegion(fmt, index, n, Head(pairs)), index, n, Tail(pairs))

IsInterpolated(cap1) == \E i \in 1..Len(cap1) : cap1[i] \in {"f", "F"}

\* The formats of an interpolated string whose scan ended as sc.
FStringFormats(fmt, index, length, sc) ==
    IF sc.pc = "hang" THEN fmt
    ELSE FormatRegions(fmt, index, length, Pairs(sc.to_format))

\* One round of the while loop of highlightBlock for the string rule: match m.
StringMatch(s, blockPos, m, acc) ==
    IF IsInterpolated(m.cap1)
    THEN [fmt |-> FStringFormats(acc.fmt, m.idx, m.len,
                                 FScan(SubSeq(s, m.idx + 1, m.idx + m.len))),
          locs |-> Append(acc.locs, <<blockPos + m.idx, blockPos + m.idx + m.len>>),
          hang |-> FScan(SubSeq(s, m.idx + 1, m.idx + m.len)).pc = "hang"]
    ELSE [fmt |-> SetFormat(acc.fmt, m.idx, m.len, "string"),
          locs |-> Append(acc.locs, <<blockPos + m.idx, blockPos + m.idx + m.len>>),
          hang |-> FALSE]

\* The while loop of highlightBlock for the string rule, from match m on.
RECURSIVE StringRule(_, _, _, _, _)
StringRule(s, blockPos, tqws, m, acc) ==
    IF m.idx < 0 \/ acc.hang THEN acc
    ELSE IF m.idx \in tqws
    THEN StringRule(s, blockPos, tqws, get_index(s, m.idx + 1), acc)
    ELSE StringRule(s, blockPos, tqws, get_index(s, m.idx + m.len),
                    StringMatch(s, blockPos, m, acc))

\* One round of the while loop of match_multiline: the delimiter starts at
\* `start`, e is the match of the ending delimiter looked for from start + add.
MultilineLength(s, start, add, e) ==
    IF e.idx >= add THEN e.idx - start + add + e.len ELSE Len(s) - start + add

MultilineRound(s, in_state, blockPos, start, add, st, e) ==
    [state |-> IF e.idx >= add THEN 0 ELSE in_state,
     locs |-> Append(st.locs, <<blockPos + start,
                                blockPos + start + MultilineLength(s, start, add, e)>>),
     fmt |-> SetFormat(st.fmt, start, MultilineLength(s, start, add, e), "string2")]

RECURSIVE MultilineLoop(_, _, _, _, _, _, _)
MultilineFrom(s, q, in_state, blockPos, start, add, st, e) ==
    MultilineLoop(s, q, in_state, blockPos,
                  TriIndexIn(s, q, start + MultilineLength(s, start, add, e)).idx, add,
                  MultilineRound(s, in_state, blockPos, start, add, st, e))

MultilineLoop(s, q, in_state, blockPos, start, add, st) ==
    IF start < 0 THEN st
    ELSE MultilineFrom(s, q, in_state, blockPos, start, add, st,
                       TriIndexIn(s, q, start + add))

\* match_multiline when the block before is not in in_state: m is the first
\* delimiter of the line.
MultilineOpen(s, q, in_state, blockPos, tqws, st, m) ==
    IF m.idx \in tqws THEN st
    ELSE MultilineLoop(s, q, in_state, blockPos, m.idx, m.len, st)

\* match_multiline(text, delimiter, in_state, style); it returns
\* currentBlockState() == in_state, which the caller reads from the state.
match_multiline(s, q, in_state, prev, blockPos, tqws, st) ==
    IF prev = in_state
    THEN MultilineLoop(s, q, in_state, blockPos, 0, 0, st)
    ELSE MultilineOpen(s, q, in_state, blockPos, tqws, st, TriIndexIn(s, q, 0))

\* Lines 289-298: setCurrentBlockState(0), the two match_multiline calls (the
\* second only if the first did not end inside its literal) and the result.
TriDouble(s, prev, blockPos, tqws, st1) ==
    IF st1.state = 1 THEN st1
    ELSE match_multiline(s, DQ, 2, prev, blockPos, tqws, st1)

Highlighted(prev, hang, st2) ==
    [state |-> st2.state, fmt |-> st2.fmt, locs |-> st2.locs,
     previous |-> prev, hang |-> hang]

Multilines(s, prev, blockPos, tqws, rules) ==
    Highlighted(prev, rules.hang,
        TriDouble(s, prev, blockPos, tqws,
            match_multiline(s, SQ, 1, prev, blockPos, tqws,
                            [state |-> 0, locs |-> rules.locs, fmt |-> rules.fmt])))

HighlightWith(s, prev, blockPos, tqws) ==
    Multilines(s, prev, blockPos, tqws,
               StringRule(s, blockPos, tqws, get_index(s, 0),
                          [fmt |-> BraceRules(s), locs |-> <<>>, hang |-> FALSE]))

\* highlightBlock(text) of a block at document offset blockPos whose
\* previousBlockState() is prev, with no lint results for the block.
highlightBlock(s, prev, blockPos) ==
    HighlightWith(s, prev, blockPos, triple_quotes_within_strings(s))

-----------------------------------------------------------------------------
(* QSyntaxHighlighter driving highlightBlock over the blocks of the document *)

Blocks == SplitLines(text)

\* A highlighter that never sees the state of the block before.
previousBlockStateUnset(states, b) == -1

\* previousBlockState() while block b is highlighted: -1 for the first block.
previousBlockState(states, b) == IF b <= 1 THEN -1 ELSE states[b - 1]

NoFormats(ls) == [b \in 1..Len(ls) |-> [i \in 1..Len(ls[b]) |-> "none"]]

\* The loop test of reformatBlocks: a block of the changed range is left, or
\* the block before changed its state.
RelexPending ==
    /\ relexAt <= Len(Blocks)
    /\ (relexAt <= relexEnd \/ relexForce)

\* What highlightBlock, having returned r for block b, leaves behind.
BlockHighlighted(b, r) ==
    /\ ~r.hang
    /\ userState' = [userState EXCEPT ![b] = r.state]
    /\ stateIn' = [stateIn EXCEPT ![b] = r.previous]
    /\ formats' = [formats EXCEPT ![b] = r.fmt]
    /\ string_locations' = r.locs
    /\ relexForce' = (r.state # userState[b])
    /\ relexAt' = b + 1

\* One round of reformatBlocks: highlightBlock on block relexAt.
HighlightNext ==
    /\ RelexPending
    /\ BlockHighlighted(relexAt,
                        highlightBlock(Blocks[relexAt],
                                       previousBlockState(userState, relexAt),
                                       BlockPosition(Blocks, relexAt)))
    /\ UNCHANGED <<text, editorVars, relexEnd, everOpen, pc, hb, ideVars>>

\* The buffer of a file just loaded with setPlainText: no block highlighted yet,
\* the whole document is the changed range.
Unhighlighted(t) ==
    /\ text = t
    /\ anchor = 0 /\ position = 0 /\ hist = <<>>
    /\ userState = [b \in 1..blockCount(t) |-> -1]
    /\ stateIn = [b \in 1..blockCount(t) |-> -1]
    /\ formats = NoFormats(SplitLines(t))
    /\ string_locations = <<>>
    /\ relexAt = 1 /\ relexEnd = blockCount(t) /\ relexForce = FALSE
    /\ everOpen = FALSE

NoScan == [pc |-> "done", open_index |-> -1, close_index |-> -1, to_format |-> <<>>]

HbIdle == [m |-> NoMatch, sc |-> NoScan]

\* Lines of at most k tokens.
RECURSIVE LinesOf(_, _)
LinesOf(tokens, k) ==
    IF k = 0 THEN {<<>>}
    ELSE LinesOf(tokens, k - 1)
         \cup {l \o t : l \in LinesOf(tokens, k - 1), t \in tokens}

\* Documents of 1..n lines drawn from lineSet.
DocsOf(lineSet, n) == UNION {[1..k -> lineSet] : k \in 1..n}

RelexMaxBlocks == 3
RelexMaxTokens == 1
RelexTokens == {<<SQ, SQ, SQ>>, <<DQ, DQ, DQ>>, <<"a">>}

InitRelex ==
    /\ \E d \in DocsOf(LinesOf(RelexTokens, RelexMaxTokens), RelexMaxBlocks) :
          Unhighlighted(JoinLines(d))
    /\ pc = "idle" /\ hb = HbIdle /\ IdeIdle

NextRelex == HighlightNext

\* A full re-lex of a freshly loaded document.
SpecRelex == InitRelex /\ [][NextRelex]_vars

RelexDone == relexAt > Len(Blocks)

-----------------------------------------------------------------------------
(* Python's own reading of the quotes of a line, against which the claims  *)
(* about the highlighter are stated: where string literals start and end,  *)
(* and whether a triple-quoted literal is left open at the end of the line *)

StateOf(q) == IF q = SQ THEN 1 ELSE 2
QuoteOf(state) == IF state = 1 THEN SQ ELSE DQ
Triple(q) == <<q, q, q>>

FindSub(s, pat, from) ==
    FirstOf({p \in from..(Len(s) - Len(pat)) : StartsAt(s, p, pat)})

RECURSIVE RefClose(_, _, _)
RefClose(s, q, i) ==
    IF i >= Len(s) THEN -1
    ELSE IF At(s, i) = q THEN i
    ELSE IF At(s, i) = BS THEN RefClose(s, q, i + 2)
    ELSE RefClose(s, q, i + 1)

\* From offset p outside any literal.  A quote that no quote closes on the
\* line starts no literal.
RECURSIVE RefScan(_, _, _)
RefTriple(s, p, q, c, spans) ==
    IF c = -1 THEN [out |-> StateOf(q), spans |-> Append(spans, <<p, Len(s)>>)]
    ELSE RefScan(s, c + 3, Append(spans, <<p, c + 3>>))

RefSingle(s, p, c, spans) ==
    IF c = -1 THEN RefScan(s, p + 1, spans)
    ELSE RefScan(s, c + 1, Append(spans, <<p, c + 1>>))

RefScan(s, p, spans) ==
    IF p >= Len(s) THEN [out |-> 0, spans |-> spans]
    ELSE IF At(s, p) \notin {SQ, DQ} THEN RefScan(s, p + 1, spans)
    ELSE IF StartsAt(s, p, Triple(At(s, p)))
    THEN RefTriple(s, p, At(s, p), FindSub(s, Triple(At(s, p)), p + 3), spans)
    ELSE RefSingle(s, p, RefClose(s, At(s, p), p + 1), spans)

RefContinue(s, in, c) ==
    IF c = -1 THEN [out |-> in, spans |-> << <<0, Len(s)>> >>]
    ELSE RefScan(s, c + 3, << <<0, c + 3>> >>)

\* The line s read with continuation state `in`.
RefLex(s, in) ==
    IF in \in {1, 2} THEN RefContinue(s, in, FindSub(s, Triple(QuoteOf(in)), 0))
    ELSE RefScan(s, 0, <<>>)

\* The continuation state block b of ls is read with.
RECURSIVE RefIn(_, _)
RefIn(ls, b) == IF b <= 1 THEN 0 ELSE RefLex(ls[b - 1], RefIn(ls, b - 1)).out

RefOut(ls, b) == RefLex(ls[b], RefIn(ls, b)).out

\* The string literals of block b in document offsets.
Shift(spans, by) == [i \in 1..Len(spans) |-> <<spans[i][1] + by, spans[i][2] + by>>]
RefSpans(ls, b) == Shift(RefLex(ls[b], RefIn(ls, b)).spans, BlockPosition(ls, b))

Range(f) == {f[i] : i \in DOMAIN f}

-----------------------------------------------------------------------------
(* Claims about a full re-lex *)

\* C1: after a full re-lex of any document, the continuation state stored as
\* the outbound state of line i equals the inbound state (previousBlockState)
\* the highlight of line i+1 was computed from, for every adjacent pair.
StatePropagation ==
    RelexDone => \A b \in 1..(Len(Blocks) - 1) : userState[b] = stateIn[b + 1]

\* A re-lexed document whose first line leaves a triple-double-quoted literal
\* open and whose second line was highlighted inside it.
StatePropagationWitness ==
    /\ RelexDone
    /\ Len(Blocks) >= 2
    /\ userState[1] = 2
    /\ stateIn[2] = 2

\* C2: a triple-quoted literal opened on line i and not closed on lines
\* i+1..k makes every line j of i+1..k highlighted with that literal's state
\* as inbound state, styled as string over its whole length, and leave the
\* outbound state unchanged, whatever else line j contains.
ClosesLiteral(ls, j, st) == FindSub(ls[j], Triple(QuoteOf(st)), 0) # -1

OpensLiteral(ls, i, st) ==
    /\ RefOut(ls, i) = st
    /\ (RefIn(ls, i) # st \/ ClosesLiteral(ls, i, st))

StyledAsString(j) == \A c \in 1..Len(formats[j]) : formats[j][c] = "string2"

OpenLiteralStylesLines ==
    RelexDone =>
        \A i \in 1..Len(Blocks), k \in 1..Len(Blocks), st \in {1, 2} :
            (/\ i < k
             /\ OpensLiteral(Blocks, i, st)
             /\ \A j \in (i + 1)..k : ~ClosesLiteral(Blocks, j, st))
            => \A j \in (i + 1)..k :
                   /\ stateIn[j] = st
                   /\ userState[j] = st
                   /\ StyledAsString(j)

\* C5: after a highlight pass, string_locations holds, for every line of the
\* document, the document offsets (start, end) of each string literal of the
\* line, ordered by start offset.
SortedByStart(locs) ==
    \A i \in 1..Len(locs), j \in 1..Len(locs) : i < j => locs[i][1] <= locs[j][1]

StringLocationsCoverDocument ==
    RelexDone =>
        /\ \A b \in 1..Len(Blocks) : Range(RefSpans(Blocks, b)) \subseteq Range(string_locations)
        /\ SortedByStart(string_locations)

-----------------------------------------------------------------------------
(* Single-line edits of a highlighted document *)

EditMaxBlocks == 2
EditMaxTokens == 3
EditTokens == {<<DQ>>, <<SQ, SQ, SQ>>}

\* A document of empty lines, highlighted: every block state is 0.
InitEdit ==
    /\ text = Repeat(NL, EditMaxBlocks - 1)
    /\ anchor = 0 /\ position = 0 /\ hist = <<>>
    /\ userState = [b \in 1..EditMaxBlocks |-> 0]
    /\ stateIn = [b \in 1..EditMaxBlocks |-> IF b = 1 THEN -1 ELSE 0]
    /\ formats = [b \in 1..EditMaxBlocks |-> <<>>]
    /\ string_locations = <<>>
    /\ relexAt = EditMaxBlocks + 1 /\ relexEnd = EditMaxBlocks /\ relexForce = FALSE
    /\ everOpen = FALSE
    /\ pc = "idle" /\ hb = HbIdle /\ IdeIdle

\* The text of block b is replaced by l (typed or pasted over it).  The
\* document reports the change and reformatBlocks starts at block b; its
\* range reaches the block after b when characters were removed.
ReplaceLine(b, l) ==
    /\ l # Blocks[b]
    /\ text' = JoinLines([Blocks EXCEPT ![b] = l])
    /\ formats' = [formats EXCEPT ![b] = [i \in 1..Len(l) |-> "none"]]
    /\ relexAt' = b
    /\ relexEnd' = IF Len(Blocks[b]) > 0 THEN b + 1 ELSE b
    /\ relexForce' = FALSE
    /\ everOpen' = (everOpen \/ RefLex(l, 0).out # 0)
    /\ UNCHANGED <<editorVars, userState, stateIn, string_locations, pc, hb, ideVars>>

EditLine ==
    /\ ~RelexPending
    /\ \E b \in 1..Len(Blocks), l \in LinesOf(EditTokens, EditMaxTokens) :
          ReplaceLine(b, l)

NextEdit == EditLine \/ HighlightNext

SpecEdit == InitEdit /\ [][NextEdit]_vars

\* C3: starting from a document whose lines all have outbound state None,
\* after any sequence of single-line edits in which no line ever holds an
\* unterminated triple-quoted literal, every line's outbound state is None.
NoLiteralLeftOpen ==
    (~everOpen /\ ~RelexPending) => \A b \in 1..Len(Blocks) : userState[b] = 0

-----------------------------------------------------------------------------------------------------------------------------------------------------
(* highlightBlock on one line, one loop test of the string rule at a time. *)
(* pc: "idle" before the call, "rule" at the test of while index >= 0,     *)
(* "format" at line 285 for a string without interpolation, "outer",       *)
(* "inner" and "advance" inside the brace scan of an interpolated string,  *)
(* "done" after the call has returned.                                     *)

Positions == {"idle", "rule", "format", "outer", "inner", "advance", "done"}

FStringMaxBody == 4
FStringChars == {"{", "}", "a"}

FStringPrefixes == {<<>>, <<"f">>}

FStringLine(prefix, body) == prefix \o <<DQ>> \o body \o <<DQ>>

InitFString ==
    /\ \E prefix \in FStringPrefixes, n \in 0..FStringMaxBody :
          \E body \in [1..n -> FStringChars] :
             Unhighlighted(FStringLine(prefix, body))
    /\ pc = "idle" /\ hb = HbIdle /\ IdeIdle

f_string_line(s, m) == SubSeq(s, m.idx + 1, m.idx + m.len)

\* Lines 202-226: the first match of the string rule.
HbEnter ==
    /\ pc = "idle"
    /\ RelexPending
    /\ pc' = "rule"
    /\ hb' = [m |-> get_index(Blocks[relexAt], 0), sc |-> NoScan]
    /\ UNCHANGED <<text, editorVars, highlightVars, everOpen, ideVars>>

\* Lines 239-263: a match is at hand; the brace scan starts if the string is
\* an interpolated one.
HbMatch ==
    /\ pc = "rule"
    /\ hb.m.idx >= 0
    /\ IF IsInterpolated(hb.m.cap1)
       THEN /\ pc' = "outer"
            /\ hb' = [hb EXCEPT !.sc = FScanInit(f_string_line(Blocks[relexAt], hb.m))]
       ELSE /\ pc' = "format"
            /\ hb' = hb
    /\ UNCHANGED <<text, editorVars, highlightVars, everOpen, ideVars>>

\* Lines 285-287: the string is formatted and the next match looked for.
HbFormat ==
    /\ pc = "format"
    /\ pc' = "rule"
    /\ hb' = [hb EXCEPT !.m = get_index(Blocks[relexAt], hb.m.idx + hb.m.len)]
    /\ UNCHANGED <<text, editorVars, highlightVars, everOpen, ideVars>>

\* Lines 264-287: one loop test or loop body of the brace scan; when the scan
\* has ended the formats are set and the next match is looked for.
Scanned(s, m, sc) ==
    /\ pc' = IF sc.pc = "done" THEN "rule" ELSE sc.pc
    /\ hb' = [m |-> IF sc.pc = "done" THEN get_index(s, m.idx + m.len) ELSE m,
              sc |-> sc]

HbScan ==
    /\ pc \in {"outer", "inner", "advance"}
    /\ Scanned(Blocks[relexAt], hb.m,
               FScanStep(f_string_line(Blocks[relexAt], hb.m), hb.sc))
    /\ UNCHANGED <<text, editorVars, highlightVars, everOpen, ideVars>>

\* Lines 289-298: no match is left; the multi-line strings are matched and
\* highlightBlock returns.
HbReturn ==
    /\ pc = "rule"
    /\ hb.m.idx < 0
    /\ BlockHighlighted(relexAt,
                        highlightBlock(Blocks[relexAt],
                                       previousBlockState(userState, relexAt),
                                       BlockPosition(Blocks, relexAt)))
    /\ pc' = "done"
    /\ UNCHANGED <<text, editorVars, relexEnd, everOpen, hb, ideVars>>

NextFString == HbEnter \/ HbMatch \/ HbFormat \/ HbScan \/ HbReturn

\* The interpreter does not stop inside a call: as long as the call has not
\* returned, its position keeps changing.
Running == pc # "done" /\ (pc = "idle" => RelexPending)

Advance == Running /\ pc' \in Positions

SpecFString == InitFString /\ [][NextFString]_vars /\ WF_pc(Advance)

\* C4: highlightBlock terminates for every line text, in particular for
\* f-strings whose braces are unbalanced or nested.
HighlightBlockTerminates == <>(pc = "done")

-----------------------------------------------------------------------------
(* QTextCursor on the document of the editor.  A cursor is a record of the *)
(* document text it edits, its anchor and its position.                    *)

Cursor(t, a, p) == [text |-> t, anchor |-> a, position |-> p]

\* self.textCursor(): a copy of the cursor of the widget.
textCursor == Cursor(text, anchor, position)

selectionStart(tc) == Min(tc.anchor, tc.position)
selectionEnd(tc) == Max(tc.anchor, tc.position)

\* setPosition(pos): a position outside the document is refused and the
\* cursor stays where it is.
setPosition(tc, pos) ==
    IF pos < 0 \/ pos > Len(tc.text) THEN tc
    ELSE [tc EXCEPT !.anchor = pos, !.position = pos]

setPositionKeepAnchor(tc, pos) ==
    IF pos < 0 \/ pos > Len(tc.text) THEN tc
    ELSE [tc EXCEPT !.position = pos]

\* insertText(str): the selection is replaced, the cursor ends after str.
insertText(tc, str) ==
    Cursor(SubSeq(tc.text, 1, selectionStart(tc)) \o str
               \o SubSeq(tc.text, selectionEnd(tc) + 1, Len(tc.text)),
           selectionStart(tc) + Len(str),
           selectionStart(tc) + Len(str))

\* deleteChar(): the selection, or else the character after the cursor.
deleteChar(tc) ==
    IF tc.anchor # tc.position THEN insertText(tc, <<>>)
    ELSE IF tc.position >= Len(tc.text) THEN tc
    ELSE [tc EXCEPT !.text = SubSeq(tc.text, 1, tc.position)
                                 \o SubSeq(tc.text, tc.position + 2, Len(tc.text))]

\* for i in range(n): tc.deleteChar()
RECURSIVE deleteChars(_, _)
deleteChars(tc, n) == IF n <= 0 THEN tc ELSE deleteChars(deleteChar(tc), n - 1)

\* tc.position() - tc.positionInBlock()
LineStart(tc) == tc.position - positionInBlock(tc.text, tc.position)

\* self.toPlainText().split("\n")[tc.blockNumber()]
CurrentLine(tc) == SplitLines(tc.text)[blockNumber(tc.text, tc.position) + 1]

\* self.setTextCursor(tc), the document being the one tc has edited.
setTextCursor(tc) ==
    /\ text' = tc.text
    /\ anchor' = tc.anchor
    /\ position' = tc.position

-----------------------------------------------------------------------------
(* non_auto_complete_key_event: Tab *)

TabWidth == 4

\* An indent of three spaces.
IndentOfThree == Repeat(SP, 3)

Indent == Repeat(SP, TabWidth)

\* A Tab key that always inserts a full indent.
TabSpacesFull(col) == Repeat(SP, TabWidth)

\* " " * (4 - (tc.positionInBlock() % 4))
TabSpaces(col) == Repeat(SP, TabWidth - (col % TabWidth))

\* Line 446.  The cursor of the widget stands where the text is inserted and
\* moves behind it with the cursor tc.
TabAtCursor(tc) == insertText(tc, TabSpaces(positionInBlock(tc.text, tc.position)))

\* A Tab key that leaves the selection at the start of the last line.
TabSelectNothing(tc) == tc

\* Lines 469-473: the selection from original_start to the end of the line
\* position_after is in.
TabSelectLine(tc) == setPositionKeepAnchor(tc, tc.position + Len(CurrentLine(tc)))

TabSelect(tc, original_start, position_after) ==
    TabSelectLine(setPositionKeepAnchor(setPosition(tc, original_start), position_after))

\* Lines 460-467: the while loop, from the line of the selection end up to the
\* line of the selection start, and the insertion after it.
RECURSIVE TabLoop(_, _, _, _, _)
TabLineUp(tc, sel_start, original_start, position_after) ==
    TabLoop(tc, LineStart(tc), sel_start, original_start, position_after)

TabLoop(tc, sel_end, sel_start, original_start, position_after) ==
    IF sel_end # sel_start
    THEN TabLineUp(setPosition(insertText(setPosition(tc, sel_end), Indent), sel_end - 1),
                   sel_start, original_start, position_after + TabWidth)
    ELSE TabSelect(insertText(setPosition(tc, sel_end), Indent),
                   original_start, position_after)

\* Lines 449-458: the starts of the lines of the two ends of the selection.
TabFrom(tc, sel_start) == TabLoop(tc, LineStart(tc), sel_start, sel_start, LineStart(tc))

TabTo(tc, sel_end) == TabFrom(setPosition(tc, sel_end), LineStart(tc))

TabSelection(tc) == TabTo(setPosition(tc, selectionStart(tc)), selectionEnd(tc))

\* The keys pressed so far, each with the buffer and cursor it met.
MaxKeys == 2

\* spans is self.string_locations as keyPressEvent copies it from the
\* highlighter (line 336); raised tells that the handler raised an exception.
Event(key, raised) ==
    [key |-> key, text |-> text, anchor |-> anchor, position |-> position,
     spans |-> string_locations, raised |-> raised]

Snapshot(key) == Event(key, FALSE)

\* Lines 444-478.
KeyTab ==
    /\ Len(hist) < MaxKeys
    /\ setTextCursor(IF selectionStart(textCursor) = selectionEnd(textCursor)
                     THEN TabAtCursor(textCursor)
                     ELSE TabSelection(textCursor))
    /\ hist' = Append(hist, Snapshot("Tab"))
    /\ UNCHANGED <<highlightVars, everOpen, pc, hb, ideVars>>

-----------------------------------------------------------------------------
(* non_auto_complete_key_event: Shift-Tab *)

Whitespace == {SP, TAB}

\* re.match(r"^(\s*)", line).end()
RECURSIVE LeadingWs(_)
LeadingWs(line) ==
    IF line = <<>> \/ Head(line) \notin Whitespace THEN 0
    ELSE 1 + LeadingWs(Tail(line))

\* Shift-Tab removing four characters whatever the line starts with, and
\* Shift-Tab removing one character of whitespace at most.
num_removing_always(line) == TabWidth
num_removing_one(line) == Min(LeadingWs(line), 1)

num_removing(line) == Min(LeadingWs(line), TabWidth)

\* Lines 487-496: the characters are deleted at the start of the line and the
\* cursor is put num_removing before where it stood.
BacktabRemove(tc, n) == deleteChars(setPosition(tc, LineStart(tc)), n)

BacktabAtCursor(tc, n) ==
    IF n # 0 THEN setPosition(BacktabRemove(tc, n), tc.position - n) ELSE tc

\* Lines 531-537.
BacktabSelect(tc, sel_end, original_start, position_after) ==
    setPositionKeepAnchor(
        setPosition(setPosition(tc, sel_end),
                    IF original_start < 0 THEN 0 ELSE original_start),
        position_after)

\* Lines 510-529: the while loop, from the line of the selection end upwards.
RECURSIVE BacktabLoop(_, _, _, _, _)
BacktabLineUp(tc, sel_start, original_start, position_after) ==
    BacktabLoop(tc, LineStart(tc), sel_start, original_start, position_after)

BacktabRemoved(tc, n, sel_end, sel_start, original_start, position_after) ==
    IF sel_end = 0 THEN BacktabSelect(tc, sel_end, original_start, position_after)
    ELSE BacktabLineUp(setPosition(tc, sel_end - 1), sel_start, original_start,
                       position_after - n)

BacktabLine(tc, sel_end, sel_start, original_start, position_after) ==
    BacktabRemoved(IF num_removing(CurrentLine(tc)) # 0
                   THEN BacktabRemove(tc, num_removing(CurrentLine(tc)))
                   ELSE tc,
                   num_removing(CurrentLine(tc)),
                   sel_end, sel_start, original_start, position_after)

BacktabLoop(tc, sel_end, sel_start, original_start, position_after) ==
    IF sel_end >= sel_start
    THEN BacktabLine(setPosition(tc, sel_end), sel_end, sel_start,
                     original_start, position_after)
    ELSE BacktabSelect(tc, sel_end, original_start, position_after)

\* Lines 499-508.
BacktabFrom(tc, sel_start) ==
    BacktabLoop(tc, LineStart(tc), sel_start, sel_start,
                LineStart(tc) + Len(CurrentLine(tc)))

BacktabTo(tc, sel_end) == BacktabFrom(setPosition(tc, sel_end), LineStart(tc))

BacktabSelection(tc) == BacktabTo(setPosition(tc, selectionStart(tc)), selectionEnd(tc))

\* Lines 480-541.
KeyBacktab ==
    /\ Len(hist) < MaxKeys
    /\ setTextCursor(IF selectionStart(textCursor) = selectionEnd(textCursor)
                     THEN BacktabAtCursor(textCursor, num_removing(CurrentLine(textCursor)))
                     ELSE BacktabSelection(textCursor))
    /\ hist' = Append(hist, Snapshot("Backtab"))
    /\ UNCHANGED <<highlightVars, everOpen, pc, hb, ideVars>>

-----------------------------------------------------------------------------
(* The editor under Tab and Shift-Tab.  The handler reads and writes the   *)
(* buffer and the cursor only; the highlighter is left aside here.         *)

MaxTextLen == 4
IndentChars == {SP, TAB, "a", NL}

InitIndent ==
    /\ \E n \in 0..MaxTextLen : text \in [1..n -> IndentChars]
    /\ anchor \in 0..Len(text)
    /\ position \in 0..Len(text)
    /\ hist = <<>>
    /\ userState = [b \in 1..blockCount(text) |-> -1]
    /\ stateIn = [b \in 1..blockCount(text) |-> -1]
    /\ formats = NoFormats(SplitLines(text))
    /\ string_locations = <<>>
    /\ relexAt = 1 /\ relexEnd = blockCount(text) /\ relexForce = FALSE
    /\ everOpen = FALSE
    /\ pc = "idle" /\ hb = HbIdle /\ IdeIdle

NextIndent == KeyTab \/ KeyBacktab

SpecIndent == InitIndent /\ [][NextIndent]_vars

-----------------------------------------------------------------------------
(* Claims about Tab and Shift-Tab.  LastKey is the key pressed last with   *)
(* the buffer and cursor it met; the variables hold what it left.          *)

LastKey == hist[Len(hist)]
AfterKey(key) == hist # <<>> /\ LastKey.key = key
HadSelection(h) == h.anchor # h.position

Lines(h) == SplitLines(h.text)
LineOf(h, p) == blockNumber(h.text, p) + 1
TouchedLines(h) ==
    LineOf(h, Min(h.anchor, h.position))..LineOf(h, Max(h.anchor, h.position))
FirstTouched(h) == LineOf(h, Min(h.anchor, h.position))
LastTouched(h) == LineOf(h, Max(h.anchor, h.position))

LeadingWhitespace(line) ==
    CHOOSE k \in 0..Len(line) :
        /\ \A i \in 1..k : line[i] \in {SP, TAB}
        /\ (k = Len(line) \/ line[k + 1] \notin {SP, TAB})

Unindented(line) == SubSeq(line, Min(4, LeadingWhitespace(line)) + 1, Len(line))

NextTabStop(c) == Minimum({m \in (c + 1)..(c + 4) : m % 4 = 0})

\* C6: Tab with no selection and the cursor at column c inserts exactly
\* 4 - (c mod 4) spaces at the cursor, the cursor ends at the smallest
\* multiple of 4 greater than c, and no other character changes.
TabAtCursorReachesNextStop ==
    (AfterKey("Tab") /\ ~HadSelection(LastKey)) =>
        /\ text = SubSeq(LastKey.text, 1, LastKey.position)
                  \o Repeat(SP, 4 - (positionInBlock(LastKey.text, LastKey.position) % 4))
                  \o SubSeq(LastKey.text, LastKey.position + 1, Len(LastKey.text))
        /\ anchor = position
        /\ LineOf(Snapshot("now"), position) = LineOf(LastKey, LastKey.position)
        /\ positionInBlock(text, position)
               = NextTabStop(positionInBlock(LastKey.text, LastKey.position))

\* Tab pressed with the cursor on the second line, one column after a stop.
TabAtCursorWitness ==
    /\ AfterKey("Tab") /\ ~HadSelection(LastKey)
    /\ LineOf(LastKey, LastKey.position) = 2
    /\ positionInBlock(LastKey.text, LastKey.position) = 1
    /\ Len(text) = Len(LastKey.text) + 3

\* C7: Tab with a selection inserts exactly four spaces at the start of every
\* touched line (the line of the selection start through the line of the
\* selection end) and of no other line; afterwards the selection runs from
\* the start of the first touched line to the end of the last touched line.
TabIndentsTouchedLines ==
    (AfterKey("Tab") /\ HadSelection(LastKey)) =>
        /\ Len(Blocks) = Len(Lines(LastKey))
        /\ \A b \in 1..Len(Lines(LastKey)) :
              Blocks[b] = IF b \in TouchedLines(LastKey)
                          THEN <<SP, SP, SP, SP>> \o Lines(LastKey)[b]
                          ELSE Lines(LastKey)[b]
        /\ anchor = BlockPosition(Blocks, FirstTouched(LastKey))
        /\ position = BlockPosition(Blocks, LastTouched(LastKey))
                      + Len(Blocks[LastTouched(LastKey)])

\* Tab pressed with a selection over two of three lines.
TabSelectionWitness ==
    /\ AfterKey("Tab") /\ HadSelection(LastKey)
    /\ Len(Lines(LastKey)) = 3
    /\ Cardinality(TouchedLines(LastKey)) = 2
    /\ Len(text) = Len(LastKey.text) + 8

\* C8: Shift-Tab with no selection removes exactly min(4, length of the
\* leading whitespace) characters from the start of the current line and
\* nothing else; with no leading whitespace buffer and cursor are unchanged.
BacktabAtCursorUnindentsLine ==
    (AfterKey("Backtab") /\ ~HadSelection(LastKey)) =>
        /\ Len(Blocks) = Len(Lines(LastKey))
        /\ \A b \in 1..Len(Lines(LastKey)) :
              Blocks[b] = IF b = LineOf(LastKey, LastKey.position)
                          THEN Unindented(Lines(LastKey)[b])
                          ELSE Lines(LastKey)[b]
        /\ LeadingWhitespace(Lines(LastKey)[LineOf(LastKey, LastKey.position)]) = 0
              => /\ text = LastKey.text
                 /\ anchor = LastKey.anchor
                 /\ position = LastKey.position

\* Shift-Tab pressed on a second line that starts with whitespace, and on a
\* line that starts with none.
BacktabAtCursorWitness ==
    /\ AfterKey("Backtab") /\ ~HadSelection(LastKey)
    /\ LineOf(LastKey, LastKey.position) = 2
    /\ LeadingWhitespace(Lines(LastKey)[2]) > 0
    /\ Len(text) < Len(LastKey.text)

\* C9: Shift-Tab with a selection removes from each touched line, and from
\* no other, exactly min(4, that line's own leading whitespace) characters at
\* its start, whatever the other lines start with.
BacktabUnindentsTouchedLines ==
    (AfterKey("Backtab") /\ HadSelection(LastKey)) =>
        /\ Len(Blocks) = Len(Lines(LastKey))
        /\ \A b \in 1..Len(Lines(LastKey)) :
              Blocks[b] = IF b \in TouchedLines(LastKey)
                          THEN Unindented(Lines(LastKey)[b])
                          ELSE Lines(LastKey)[b]

\* Shift-Tab pressed with a selection over two lines that start with
\* different amounts of whitespace.
BacktabSelectionWitness ==
    /\ AfterKey("Backtab") /\ HadSelection(LastKey)
    /\ Cardinality(TouchedLines(LastKey)) = 2
    /\ LeadingWhitespace(Lines(LastKey)[FirstTouched(LastKey)])
           # LeadingWhitespace(Lines(LastKey)[LastTouched(LastKey)])
    /\ Len(text) < Len(LastKey.text)

\* C10: for any selection covering N >= 1 lines, also one touching the first
\* line, Tab followed by Shift-Tab returns every line to its text before Tab.
TextAfterKey(k) == IF k = Len(hist) THEN text ELSE hist[k + 1].text

TabThenBacktabRestores ==
    \A k \in 1..(Len(hist) - 1) :
        (/\ hist[k].key = "Tab"
         /\ HadSelection(hist[k])
         /\ hist[k + 1].key = "Backtab")
        => TextAfterKey(k + 1) = hist[k].text

\* Tab and then Shift-Tab pressed with a selection from the first line into
\* the second.
TabThenBacktabWitness ==
    /\ Len(hist) = 2
    /\ hist[1].key = "Tab" /\ hist[2].key = "Backtab"
    /\ HadSelection(hist[1])
    /\ FirstTouched(hist[1]) = 1 /\ LastTouched(hist[1]) = 2
    /\ text = hist[1].text

-----------------------------------------------------------------------------
(* non_auto_complete_key_event: Return *)

\* self.toPlainText().split("\n")[tc.blockNumber()][:tc.positionInBlock()]
current_line(tc) == PySlice(CurrentLine(tc), 0, positionInBlock(tc.text, tc.position))

\* whitespace.replace("\t", "    ")
RECURSIVE ReplaceTabs(_)
ReplaceTabs(ws) ==
    IF ws = <<>> THEN <<>>
    ELSE (IF Head(ws) = TAB THEN Repeat(SP, TabWidth) ELSE <<Head(ws)>>)
         \o ReplaceTabs(Tail(ws))

\* A Return key that keeps the tabs of the inherited indentation.
KeepTabs(ws) == ws

ReturnTabs(ws) == ReplaceTabs(ws)

EndsWithColon(line) == line # <<>> /\ line[Len(line)] = ":"

ReturnWord == <<"r", "e", "t", "u", "r", "n">>

\* current_line.lstrip().startswith('return')
StartsWithReturn(line) == StartsAt(line, LeadingWs(line), ReturnWord)

\* Lines 435-438, whitespace being the indentation inherited from line.
ReturnIndent(line, whitespace) ==
    IF EndsWithColon(line) THEN whitespace \o Repeat(SP, TabWidth)
    ELSE IF StartsWithReturn(line) /\ whitespace # <<>> THEN PySlice(whitespace, 0, -4)
    ELSE whitespace

\* Lines 431-433.
ReturnWhitespace(line) == ReturnTabs(SubSeq(line, 1, LeadingWs(line)))

ReturnText(line) == <<NL>> \o ReturnIndent(line, ReturnWhitespace(line))

\* Lines 428-442.
KeyReturn ==
    /\ Len(hist) < MaxKeys
    /\ setTextCursor(insertText(textCursor, ReturnText(current_line(textCursor))))
    /\ hist' = Append(hist, Snapshot("Return"))
    /\ UNCHANGED <<highlightVars, everOpen, pc, hb, ideVars>>

-----------------------------------------------------------------------------
(* The editor under Return, on buffers made of indentation, colons and the *)
(* word return.                                                            *)

ReturnMaxTokens == 3
ReturnTokens == {<<SP>>, <<TAB>>, <<":">>, <<"a">>, <<NL>>, ReturnWord}

\* A buffer with the cursor somewhere in it and nothing highlighted yet.
Buffer(t) ==
    /\ text = t
    /\ anchor \in 0..Len(t)
    /\ position \in 0..Len(t)
    /\ hist = <<>>
    /\ userState = [b \in 1..blockCount(t) |-> -1]
    /\ stateIn = [b \in 1..blockCount(t) |-> -1]
    /\ formats = NoFormats(SplitLines(t))
    /\ string_locations = <<>>
    /\ relexAt = 1 /\ relexEnd = blockCount(t) /\ relexForce = FALSE
    /\ everOpen = FALSE
    /\ pc = "idle" /\ hb = HbIdle /\ IdeIdle

InitReturn == \E t \in LinesOf(ReturnTokens, ReturnMaxTokens) : Buffer(t)

NextReturn == KeyReturn

SpecReturn == InitReturn /\ [][NextReturn]_vars

\* What a key has to do with the buffer it met: h is the key with the buffer
\* and cursor it met.
TextBeforeCursor(h) ==
    SubSeq(Lines(h)[LineOf(h, h.position)], 1, positionInBlock(h.text, h.position))

RECURSIVE TabsAsSpaces(_)
TabsAsSpaces(ws) ==
    IF ws = <<>> THEN <<>>
    ELSE (IF Head(ws) = TAB THEN <<SP, SP, SP, SP>> ELSE <<Head(ws)>>)
         \o TabsAsSpaces(Tail(ws))

Inherited(before) == TabsAsSpaces(SubSeq(before, 1, LeadingWhitespace(before)))

AfterReturnWord(before) ==
    /\ Len(before) >= LeadingWhitespace(before) + 6
    /\ SubSeq(before, LeadingWhitespace(before) + 1, LeadingWhitespace(before) + 6)
           = <<"r", "e", "t", "u", "r", "n">>

Replaced(h, str) ==
    SubSeq(h.text, 1, Min(h.anchor, h.position)) \o str
        \o SubSeq(h.text, Max(h.anchor, h.position) + 1, Len(h.text))

OnlySpaces(str) == \A i \in 1..Len(str) : str[i] = SP

\* C11: Return inserts a newline followed by indentation made only of
\* spaces: the leading whitespace of the current line's text before the
\* cursor with each tab replaced by 4 spaces, plus 4 more spaces exactly when
\* the text before the cursor ends with ':'; in every other case the new
\* line's indentation equals the inherited indentation.
ReturnIndentation(before) ==
    IF before # <<>> /\ before[Len(before)] = ":"
    THEN Inherited(before) \o <<SP, SP, SP, SP>>
    ELSE Inherited(before)

ReturnInheritsIndentation ==
    AfterKey("Return") =>
        /\ text = Replaced(LastKey, <<NL>> \o ReturnIndentation(TextBeforeCursor(LastKey)))
        /\ OnlySpaces(ReturnIndentation(TextBeforeCursor(LastKey)))

\* C11 as the handler has it: a line that is a return statement, not ending
\* with ':', gives the new line the inherited indentation without its last
\* 4 spaces (without all of it if it has fewer).
DroppedLast4(ws) == SubSeq(ws, 1, Max(Len(ws) - 4, 0))

ReturnIndentationDedenting(before) ==
    IF before # <<>> /\ before[Len(before)] = ":"
    THEN Inherited(before) \o <<SP, SP, SP, SP>>
    ELSE IF AfterReturnWord(before) THEN DroppedLast4(Inherited(before))
    ELSE Inherited(before)

ReturnIndentsOrDedents ==
    AfterKey("Return") =>
        /\ text = Replaced(LastKey,
                           <<NL>> \o ReturnIndentationDedenting(TextBeforeCursor(LastKey)))
        /\ OnlySpaces(ReturnIndentationDedenting(TextBeforeCursor(LastKey)))
        /\ anchor = position
        /\ position = Min(LastKey.anchor, LastKey.position) + 1
                      + Len(ReturnIndentationDedenting(TextBeforeCursor(LastKey)))

\* Return pressed at the end of a tab-indented return statement: the new
\* line has no indentation.
ReturnWitness ==
    /\ AfterKey("Return")
    /\ TextBeforeCursor(LastKey) = <<TAB, "r", "e", "t", "u", "r", "n">>
    /\ text = <<TAB, "r", "e", "t", "u", "r", "n", NL>>

-----------------------------------------------------------------------------
(* non_auto_complete_key_event: brackets *)

\* need_to_match (lines 544-548); a key is named by the character it types.
need_to_match ==
    [k \in {"(", "{", "["} |->
        IF k = "(" THEN <<"(", ")">> ELSE IF k = "{" THEN <<"{", "}">> ELSE <<"[", "]">>]

\* Lines 549-551.
matching_closing == {")", "}", "]"}

\* QPlainTextEdit.keyPressEvent for a key that types a character (line 711).
DefaultKeyPress(tc, ch) == insertText(tc, <<ch>>)

\* Lines 561-564: opened is the cursor after the opening mark went in.
PairClosed(opened, close) == setPosition(insertText(opened, <<close>>), opened.position)

\* An opening bracket that brings no closing mark.
PairUnclosed(tc, matching_str) == insertText(tc, <<matching_str[1]>>)

PairAtCursor(tc, matching_str) ==
    PairClosed(insertText(tc, <<matching_str[1]>>), matching_str[2])

\* Lines 569-577 and 618-626: the selection from s to e is wrapped.
PairWrap(tc, matching_str, s, e) ==
    setPositionKeepAnchor(
        setPosition(
            insertText(setPosition(insertText(setPosition(tc, s), <<matching_str[1]>>),
                                   e + 1),
                       <<matching_str[2]>>),
            s + 1),
        e + 1)

\* Lines 557-580.
OpenBracket(tc, key) ==
    IF selectionStart(tc) = selectionEnd(tc)
    THEN PairAtCursor(tc, need_to_match[key])
    ELSE PairWrap(tc, need_to_match[key], selectionStart(tc), selectionEnd(tc))

KeyOpen(key) ==
    /\ key \in DOMAIN need_to_match
    /\ setTextCursor(OpenBracket(textCursor, key))
    /\ hist' = Append(hist, Snapshot(key))

\* A closing bracket that never skips over the character after the cursor.
NeverSkips(tc, key) == FALSE

\* Line 587: next_1 and ord(next_1) == event.key()
SkipsOver(tc, key) == PySlice(tc.text, tc.position, tc.position + 1) = <<key>>

\* Lines 583-590, then line 711.
CloseBracket(tc, key) ==
    IF SkipsOver(tc, key) THEN setPosition(tc, tc.position + 1)
    ELSE DefaultKeyPress(tc, key)

KeyClose(key) ==
    /\ key \in matching_closing
    /\ setTextCursor(CloseBracket(textCursor, key))
    /\ hist' = Append(hist, Snapshot(key))

-----------------------------------------------------------------------------
(* The editor under the bracket keys. *)

PairMaxLen == 3
PairMaxKeys == 1
PairChars == {"(", ")", "]", "a"}

Texts(chars, n) == UNION {[1..k -> chars] : k \in 0..n}

InitPairs == \E t \in Texts(PairChars, PairMaxLen) : Buffer(t)

TypeOpen ==
    /\ Len(hist) < PairMaxKeys
    /\ \E key \in DOMAIN need_to_match : KeyOpen(key)
    /\ UNCHANGED <<highlightVars, everOpen, pc, hb, ideVars>>

TypeClose ==
    /\ Len(hist) < PairMaxKeys
    /\ \E key \in matching_closing : KeyClose(key)
    /\ UNCHANGED <<highlightVars, everOpen, pc, hb, ideVars>>

NextPairs == TypeOpen \/ TypeClose

SpecPairs == InitPairs /\ [][NextPairs]_vars

Closing(key) == IF key = "(" THEN ")" ELSE IF key = "[" THEN "]" ELSE "}"

\* C12: typing '(', '[' or '{' with no selection at offset p, in any buffer,
\* leaves the opening mark at p, its matching closing mark at p+1 and the
\* cursor at p+1, the rest of the buffer unchanged.
OpenBracketAutoCloses ==
    (/\ hist # <<>>
     /\ LastKey.key \in {"(", "[", "{"}
     /\ ~HadSelection(LastKey))
    => /\ text = SubSeq(LastKey.text, 1, LastKey.position)
                 \o <<LastKey.key, Closing(LastKey.key)>>
                 \o SubSeq(LastKey.text, LastKey.position + 1, Len(LastKey.text))
       /\ position = LastKey.position + 1
       /\ anchor = position

\* '[' typed between two characters of a buffer.
OpenBracketWitness ==
    /\ AfterKey("[")
    /\ LastKey.text = <<"a", ")">>
    /\ text = <<"a", "[", "]", ")">>
    /\ position = 2

\* C14: typing ')', ']' or '}' when the character right after the cursor is
\* that same character moves the cursor one to the right and leaves the
\* buffer unchanged.
CloseBracketSkipsOver ==
    (/\ hist # <<>>
     /\ LastKey.key \in {")", "]", "}"}
     /\ LastKey.position < Len(LastKey.text)
     /\ LastKey.text[LastKey.position + 1] = LastKey.key)
    => /\ text = LastKey.text
       /\ position = LastKey.position + 1

\* ']' typed in front of a ']'.
CloseBracketWitness ==
    /\ AfterKey("]")
    /\ LastKey.text = <<"(", "]">>
    /\ LastKey.position = 1
    /\ position = 2

-----------------------------------------------------------------------------
(* keyPressEvent with the highlighter attached: the bracket keys typed into *)
(* a highlighted line.                                                      *)

TypingMaxLen == 3
TypingMaxKeys == 1
TypingChars == {DQ, "(", ")", "a"}

InitTyping == \E t \in Texts(TypingChars, TypingMaxLen) : Buffer(t)

\* The document reports characters added at offset from: the formats of the
\* changed block are gone and reformatBlocks starts at that block.
contentsChange(from, added) ==
    /\ formats' = [b \in 1..blockCount(text') |->
                      IF b = blockNumber(text', from) + 1
                      THEN [i \in 1..Len(SplitLines(text')[b]) |-> "none"]
                      ELSE formats[b]]
    /\ relexAt' = blockNumber(text', from) + 1
    /\ relexEnd' = blockNumber(text', Min(from + added, Len(text'))) + 1
    /\ relexForce' = FALSE

\* keyPressEvent (lines 325-348) for a bracket key: self.string_locations is
\* taken from the highlighter, then non_auto_complete_key_event runs.
KeyPressBracket(key) ==
    \/ KeyOpen(key)
    \/ KeyClose(key)

KeyPressEvent ==
    /\ ~RelexPending
    /\ Len(hist) < TypingMaxKeys
    /\ \E key \in DOMAIN need_to_match \cup matching_closing : KeyPressBracket(key)
    /\ contentsChange(Min(anchor, position), Len(text') - Len(text))
    /\ UNCHANGED <<userState, stateIn, string_locations, everOpen, pc, hb, ideVars>>

NextTyping == KeyPressEvent \/ HighlightNext

SpecTyping == InitTyping /\ [][NextTyping]_vars

\* The cursor of h lies strictly inside a span the highlighter reported.
InsideString(h) ==
    \E i \in 1..Len(h.spans) : h.spans[i][1] < h.position /\ h.position < h.spans[i][2]

PlainlyInserted(h) ==
    /\ text = SubSeq(h.text, 1, h.position) \o <<h.key>>
              \o SubSeq(h.text, h.position + 1, Len(h.text))
    /\ position = h.position + 1

\* C13: when the cursor lies strictly inside a string span reported by the
\* highlighter, typing an opening bracket inserts only that character, with
\* no automatic closing mark, and a closing bracket is plainly inserted, not
\* skipped over.
NoAutopairInsideString ==
    (/\ hist # <<>>
     /\ LastKey.key \in {"(", "[", "{", ")", "]", "}"}
     /\ ~HadSelection(LastKey)
     /\ InsideString(LastKey))
    => PlainlyInserted(LastKey)

-----------------------------------------------------------------------------
(* non_auto_complete_key_event: quotes *)

\* need_to_match_strings (lines 552-555).
need_to_match_strings == [k \in {DQ, SQ} |-> <<k, k>>]

TripleQuotes == {<<SQ, SQ, SQ>>, <<DQ, DQ, DQ>>}

\* Lines 608-614: typed is the cursor after the quote went in, at pos.
QuoteSkipOrClose(typed, pos, close) ==
    IF PySlice(typed.text, pos, pos + 1) = <<close>>
    THEN setPosition(deleteChar(typed), pos)
    ELSE setPosition(insertText(typed, <<close>>), pos)

\* A quote key that never completes a triple quote.
NeverTriple(last_3, last_3_1_before) == FALSE

\* Line 604.
OpensTriple(last_3, last_3_1_before) ==
    last_3 \in TripleQuotes /\ last_3_1_before \notin TripleQuotes

\* Lines 599-614.
QuoteTyped(typed, pos, last_3, last_3_1_before, close) ==
    IF OpensTriple(last_3, last_3_1_before)
    THEN setPosition(insertText(typed, last_3), pos)
    ELSE QuoteSkipOrClose(typed, pos, close)

QuoteAt(typed, close) ==
    QuoteTyped(typed, typed.position,
               PySlice(typed.text, Max(0, typed.position - 3), typed.position),
               PySlice(typed.text, Max(0, typed.position - 4), typed.position - 1),
               close)

\* Lines 592-629.
Quote(tc, key) ==
    IF selectionStart(tc) = selectionEnd(tc)
    THEN QuoteAt(insertText(tc, <<need_to_match_strings[key][1]>>),
                 need_to_match_strings[key][2])
    ELSE PairWrap(tc, need_to_match_strings[key], selectionStart(tc), selectionEnd(tc))

KeyQuote(key) ==
    /\ key \in DOMAIN need_to_match_strings
    /\ setTextCursor(Quote(textCursor, key))
    /\ hist' = Append(hist, Snapshot(key))

-----------------------------------------------------------------------------
(* The editor under the quote keys. *)

QuoteMaxLen == 2
QuoteMaxKeys == 3
QuoteChars == {SQ, DQ, "a"}

InitQuotes == \E t \in Texts(QuoteChars, QuoteMaxLen) : Buffer(t)

TypeQuote ==
    /\ Len(hist) < QuoteMaxKeys
    /\ \E key \in DOMAIN need_to_match_strings : KeyQuote(key)
    /\ UNCHANGED <<highlightVars, everOpen, pc, hb, ideVars>>

NextQuotes == TypeQuote

SpecQuotes == InitQuotes /\ [][NextQuotes]_vars

IsQuote(ch) == ch \in {SQ, DQ}

\* No quote character right before or right after offset p of t.
AwayFromQuotes(t, p) ==
    /\ p > 0 => ~IsQuote(t[p])
    /\ p < Len(t) => ~IsQuote(t[p + 1])

\* The last three keys were the same quote key, and the first of them met
\* h: a cursor with no selection, away from quote characters.
ThreeQuotes(h) ==
    /\ Len(hist) >= 3
    /\ h = hist[Len(hist) - 2]
    /\ IsQuote(h.key)
    /\ hist[Len(hist) - 1].key = h.key
    /\ hist[Len(hist)].key = h.key
    /\ ~HadSelection(h)
    /\ AwayFromQuotes(h.text, h.position)

\* C15: pressing the same quote key three times in a row with no selection,
\* starting at a position not adjacent to quote characters, leaves exactly
\* six of that quote character at that position, the cursor between the
\* third and the fourth.
SixQuotes(h) ==
    /\ text = SubSeq(h.text, 1, h.position)
              \o <<h.key, h.key, h.key, h.key, h.key, h.key>>
              \o SubSeq(h.text, h.position + 1, Len(h.text))
    /\ position = h.position + 3
    /\ anchor = position

ThreeQuotesMakeTriple ==
    \A i \in 1..Len(hist) : ThreeQuotes(hist[i]) => SixQuotes(hist[i])

\* Three double quotes typed after a letter.
ThreeQuotesWitness ==
    /\ Len(hist) = 3
    /\ ThreeQuotes(hist[1])
    /\ hist[1].text = <<"a">>
    /\ text = <<"a", DQ, DQ, DQ, DQ, DQ, DQ>>
    /\ position = 4

\* C16: typing a quote with no selection when the character right after
\* the cursor is that same quote moves the cursor one to the right and
\* leaves the buffer unchanged, whatever the buffer holds before the cursor.
QuoteSkipsOver ==
    (/\ hist # <<>>
     /\ IsQuote(LastKey.key)
     /\ ~HadSelection(LastKey)
     /\ LastKey.position < Len(LastKey.text)
     /\ LastKey.text[LastKey.position + 1] = LastKey.key)
    => /\ text = LastKey.text
       /\ position = LastKey.position + 1

-----------------------------------------------------------------------------
(* non_auto_complete_key_event: Backspace *)

\* QTextCursor.deletePreviousChar: the selection, or the character before
\* the cursor.
deletePreviousChar(tc) ==
    IF tc.anchor # tc.position THEN insertText(tc, <<>>)
    ELSE IF tc.position = 0 THEN tc
    ELSE Cursor(SubSeq(tc.text, 1, tc.position - 1)
                    \o SubSeq(tc.text, tc.position + 1, Len(tc.text)),
                tc.position - 1, tc.position - 1)

RECURSIVE deletePreviousChars(_, _)
deletePreviousChars(tc, n) ==
    IF n = 0 THEN tc ELSE deletePreviousChars(deletePreviousChar(tc), n - 1)

\* Line 639.
matching_pairs == {<<"(", ")">>, <<"{", "}">>, <<"[", "]">>, <<DQ, DQ>>, <<SQ, SQ>>}

\* re.match(r"^\s*$", current_line), for a current_line without newline.
AllWhitespace(line) == \A i \in 1..Len(line) : line[i] \in Whitespace

\* A Backspace that takes the whole indentation away.
CollapseAll(line_len) == line_len

\* Line 649: range((line_len - 1) % 4 + 1)
CollapseCount(line_len) == ((line_len - 1) % 4) + 1

\* Lines 645-653, then line 711.
BackspaceInLine(tc, line) ==
    IF AllWhitespace(line) /\ Len(line) > 0
    THEN deletePreviousChars(tc, CollapseCount(Len(line)))
    ELSE deletePreviousChar(tc)

\* Lines 635-653.
Backspace(tc) ==
    IF PySlice(tc.text, Max(0, tc.position - 1), tc.position + 1) \in matching_pairs
    THEN deletePreviousChar(deleteChar(tc))
    ELSE BackspaceInLine(tc, PySlice(tc.text,
                                     tc.position - positionInBlock(tc.text, tc.position),
                                     tc.position))

\* Blocks bs+1..be of a per-block sequence are gone with their newlines.
Merged(perBlock, bs, be) == SubSeq(perBlock, 1, bs) \o SubSeq(perBlock, be + 1, Len(perBlock))

\* The document reports that the characters from offset from to offset to
\* were removed: block bs has lost its formats, and reformatBlocks starts
\* there and reaches the block that holds the character after from.
contentsRemoved(states, ins, from, bs, be) ==
    /\ userState' = Merged(states, bs, be)
    /\ stateIn' = Merged(ins, bs, be)
    /\ formats' = [b \in 1..blockCount(text') |->
                      IF b = bs THEN [i \in 1..Len(SplitLines(text')[b]) |-> "none"]
                      ELSE Merged(formats, bs, be)[b]]
    /\ relexAt' = bs
    /\ relexEnd' = blockNumber(text', Min(from + 1, Len(text'))) + 1
    /\ relexForce' = FALSE

\* rehighlightBlock(tc.block()) (line 633) has returned r for block b, then
\* the cursor tc made by the handler is set.
Backspaced(b, r, tc) ==
    /\ ~r.hang
    /\ setTextCursor(tc)
    /\ string_locations' = r.locs
    /\ IF Len(tc.text) < Len(text)
       THEN contentsRemoved([userState EXCEPT ![b] = r.state],
                            [stateIn EXCEPT ![b] = r.previous],
                            tc.position,
                            blockNumber(text, tc.position) + 1,
                            blockNumber(text, tc.position + Len(text) - Len(tc.text)) + 1)
       ELSE /\ userState' = [userState EXCEPT ![b] = r.state]
            /\ stateIn' = [stateIn EXCEPT ![b] = r.previous]
            /\ formats' = [formats EXCEPT ![b] = r.fmt]
            /\ relexForce' = (r.state # userState[b])
            /\ relexAt' = IF r.state # userState[b] THEN b + 1 ELSE relexAt
            /\ UNCHANGED relexEnd

\* keyPressEvent for Backspace keeps the spans it had (line 334).
BackspaceEvent ==
    [Snapshot("Backspace") EXCEPT
        !.spans = (IF hist = <<>> THEN <<>> ELSE hist[Len(hist)].spans) \o string_locations]

BackspaceMaxKeys == 1

\* Lines 632-653.
KeyBackspace ==
    /\ ~RelexPending
    /\ Len(hist) < BackspaceMaxKeys
    /\ Backspaced(blockNumber(text, position) + 1,
                  highlightBlock(Blocks[blockNumber(text, position) + 1],
                                 previousBlockState(userState, blockNumber(text, position) + 1),
                                 BlockPosition(Blocks, blockNumber(text, position) + 1)),
                  Backspace(textCursor))
    /\ hist' = Append(hist, BackspaceEvent)
    /\ UNCHANGED <<everOpen, pc, hb, ideVars>>

-----------------------------------------------------------------------------
(* The editor under Backspace, on highlighted buffers made of indentation. *)

BackspaceMaxTokens == 3
BackspaceTokens == {<<SP>>, <<SP, SP, SP, SP>>, <<TAB>>, <<"a">>, <<NL>>}

InitBackspace == \E t \in LinesOf(BackspaceTokens, BackspaceMaxTokens) : Buffer(t)

NextBackspace == KeyBackspace \/ HighlightNext

SpecBackspace == InitBackspace /\ [][NextBackspace]_vars

\* Column of the cursor of h, and whether only whitespace is before it in
\* its line.
Column(h) == positionInBlock(h.text, h.position)

InIndentation(h) ==
    \A i \in 1..Column(h) : h.text[h.position - Column(h) + i] \in {SP, TAB}

\* C17: Backspace with no selection at column c > 0, when every character
\* from the line start to the cursor is whitespace, deletes exactly
\* ((c-1) mod 4)+1 characters before the cursor in one key press: the
\* cursor drops to the largest multiple of 4 strictly less than c and the
\* rest of the buffer is unchanged.
Collapsed(h, n) ==
    /\ text = SubSeq(h.text, 1, h.position - n)
              \o SubSeq(h.text, h.position + 1, Len(h.text))
    /\ position = h.position - n
    /\ anchor = position
    /\ Column(h) - n = 4 * ((Column(h) - 1) \div 4)

BackspaceCollapsesIndentation ==
    (/\ AfterKey("Backspace")
     /\ ~HadSelection(LastKey)
     /\ Column(LastKey) > 0
     /\ InIndentation(LastKey))
    => Collapsed(LastKey, ((Column(LastKey) - 1) % 4) + 1)

\* Backspace at column 6 of an indentation takes two characters away.
BackspaceWitness ==
    /\ AfterKey("Backspace")
    /\ LastKey.text = <<SP, SP, SP, SP, TAB, SP>>
    /\ LastKey.position = 6
    /\ text = <<SP, SP, SP, SP>>
    /\ ~RelexPending

-----------------------------------------------------------------------------
(* non_auto_complete_key_event: Ctrl+/ *)

\* len(x) - len(x.lstrip(' '))
RECURSIVE LeadingSpaces(_)
LeadingSpaces(x) ==
    IF x = <<>> \/ Head(x) # SP THEN 0 ELSE 1 + LeadingSpaces(Tail(x))

\* Line 674.
min_indent(lines) == Minimum({LeadingSpaces(lines[i]) : i \in 1..Len(lines)})

\* Line 675, the lines tested in order from line i on: "IndexError" is
\* x.lstrip(' ')[0] on a line of spaces only.
RECURSIVE is_currently_commented(_, _, _)
is_currently_commented(lines, m, i) ==
    IF i > Len(lines) THEN "True"
    ELSE IF Len(lines[i]) <= m THEN "False"
    ELSE IF LeadingSpaces(lines[i]) = Len(lines[i]) THEN "IndexError"
    ELSE IF lines[i][LeadingSpaces(lines[i]) + 1] # "#" THEN "False"
    ELSE is_currently_commented(lines, m, i + 1)

\* line.replace(old, '', 1)
FirstOccurrence(line, old) == Minimum({i \in 0..Len(line) : StartsAt(line, i, old)})

RemoveAt(line, at, n) == SubSeq(line, 1, at) \o SubSeq(line, at + n + 1, Len(line))

RemoveFirst(line, old) == RemoveAt(line, FirstOccurrence(line, old), Len(old))

\* An uncommenting that leaves the space after the marker.
UncommentMarker(line) ==
    IF StartsAt(line, LeadingSpaces(line), <<"#">>) THEN <<RemoveFirst(line, <<"#">>)>>
    ELSE <<>>

\* Lines 680-685: the lines that line gives to lines_uncommented.
Uncomment(line) ==
    IF StartsAt(line, LeadingSpaces(line), <<"#", SP>>) THEN <<RemoveFirst(line, <<"#", SP>>)>>
    ELSE IF StartsAt(line, LeadingSpaces(line), <<"#">>) THEN <<RemoveFirst(line, <<"#">>)>>
    ELSE <<>>

RECURSIVE lines_uncommented(_)
lines_uncommented(lines) ==
    IF lines = <<>> THEN <<>>
    ELSE Uncomment(Head(lines)) \o lines_uncommented(Tail(lines))

\* Lines 689-690.
insert_into(wrapper, to_insert, index) ==
    PySlice(wrapper, 0, index) \o to_insert \o PySlice(wrapper, index, Len(wrapper))

\* Lines 677-692.
to_replace_with(lines, m, commented) ==
    IF commented = "True" THEN JoinLines(lines_uncommented(lines))
    ELSE JoinLines([i \in 1..Len(lines) |-> insert_into(lines[i], <<"#", SP>>, m)])

\* Lines 671-696: sel is the cursor with the touched lines selected.
Replaced3(sel, start_line_pos, str) ==
    setPositionKeepAnchor(setPosition(insertText(sel, str), start_line_pos),
                          start_line_pos + Len(str))

ToggleLines(tc, start_line_pos, lines, m) ==
    Replaced3(setPositionKeepAnchor(setPosition(tc, start_line_pos),
                                    start_line_pos + Len(JoinLines(lines))),
              start_line_pos,
              to_replace_with(lines, m, is_currently_commented(lines, m, 1)))

\* Lines 656-666.
lines_to_comment(tc) ==
    SubSeq(SplitLines(tc.text),
           blockNumber(tc.text, selectionStart(tc)) + 1,
           blockNumber(tc.text, selectionEnd(tc)) + 1)

CommentRaises(lines) == is_currently_commented(lines, min_indent(lines), 1) = "IndexError"

CommentMaxKeys == 2

\* Lines 655-699.  An exception leaves the handler before the document or
\* the cursor of the widget is touched.
KeyComment ==
    /\ Len(hist) < CommentMaxKeys
    /\ IF CommentRaises(lines_to_comment(textCursor))
       THEN /\ hist' = Append(hist, Event("Ctrl+/", TRUE))
            /\ UNCHANGED <<text, anchor, position>>
       ELSE /\ setTextCursor(
                   ToggleLines(textCursor,
                               selectionStart(textCursor)
                                   - positionInBlock(text, selectionStart(textCursor)),
                               lines_to_comment(textCursor),
                               min_indent(lines_to_comment(textCursor))))
            /\ hist' = Append(hist, Snapshot("Ctrl+/"))
    /\ UNCHANGED <<highlightVars, everOpen, pc, hb, ideVars>>

-----------------------------------------------------------------------------
(* The editor under Ctrl+/. *)

CommentMaxLen == 4
CommentChars == {SP, TAB, "#", "a", NL}

InitComment == \E t \in Texts(CommentChars, CommentMaxLen) : Buffer(t)

NextComment == KeyComment

SpecComment == InitComment /\ [][NextComment]_vars

\* A line that begins with '#' after its leading whitespace, and that line
\* without the marker and the space that follows it, if any.
Marked(line) ==
    /\ LeadingWhitespace(line) < Len(line)
    /\ line[LeadingWhitespace(line) + 1] = "#"

MarkerLength(line) ==
    IF /\ LeadingWhitespace(line) + 2 <= Len(line)
       /\ line[LeadingWhitespace(line) + 2] = SP
    THEN 2 ELSE 1

Unmarked(line) ==
    SubSeq(line, 1, LeadingWhitespace(line))
        \o SubSeq(line, LeadingWhitespace(line) + MarkerLength(line) + 1, Len(line))

MarkedAt(line, m) == SubSeq(line, 1, m) \o <<"#", SP>> \o SubSeq(line, m + 1, Len(line))

CommentColumn(h) == Minimum({LeadingWhitespace(Lines(h)[i]) : i \in TouchedLines(h)})

AllMarked(h) == \A i \in TouchedLines(h) : Marked(Lines(h)[i])

Toggled(h, i) ==
    IF i \notin TouchedLines(h) THEN Lines(h)[i]
    ELSE IF AllMarked(h) THEN Unmarked(Lines(h)[i])
    ELSE MarkedAt(Lines(h)[i], CommentColumn(h))

\* C18: comment toggle over the touched lines: if every touched line, after
\* its own leading whitespace, begins with '#', exactly one '#' and one
\* following space, if present, is removed from each touched line;
\* otherwise '# ' is inserted in every touched line at column m, the
\* smallest leading-whitespace length over the touched lines.  The number
\* of lines and all other characters are unchanged.
CommentToggles ==
    AfterKey("Ctrl+/") =>
        /\ Len(SplitLines(text)) = Len(Lines(LastKey))
        /\ \A i \in 1..Len(Lines(LastKey)) : SplitLines(text)[i] = Toggled(LastKey, i)

\* C19: for any block of lines already commented, toggling removes exactly
\* one marker and the optional following space per line, and toggling a
\* second time over the same lines restores the original text of every
\* line exactly.
ToggledTwice(k) ==
    /\ k < Len(hist)
    /\ hist[k].key = "Ctrl+/"
    /\ hist[k + 1].key = "Ctrl+/"
    /\ TouchedLines(hist[k + 1]) = TouchedLines(hist[k])

Uniform(line, n) ==
    /\ Len(line) >= n + 2
    /\ \A i \in 1..n : line[i] = SP
    /\ line[n + 1] = "#"
    /\ line[n + 2] = SP
    /\ Len(line) > n + 2 => line[n + 3] \notin {SP, "#"}

UniformLines(lines) ==
    \A i \in 1..Len(lines) : Uniform(lines[i], LeadingWhitespace(lines[1]))

UniformlyMarked(h) == UniformLines(SubSeq(Lines(h), FirstTouched(h), LastTouched(h)))

NoKeyRaises == \A k \in 1..Len(hist) : ~hist[k].raised

-----------------------------------------------------------------------------
(* Diagnostics and the gutter of the editor (line_number_area_paint_event) *)

\* A diagnostic as LintingWorker.run_linter_on_code leaves it in
\* linting_results: an object of pylint's JSON output, of which the program
\* reads the keys type, line, column, message and message-id.
Diagnostic(type, line, column, message) ==
    [k \in {"type", "line", "column", "message", "message-id"} |->
        IF k = "type" THEN type
        ELSE IF k = "line" THEN line
        ELSE IF k = "column" THEN column
        ELSE IF k = "message" THEN message
        ELSE "C0000"]

\* Lines 308-310 and 301-306 of additional_qwidgets.py.
linting_severities == <<"convention", "refactor", "warning", "error">>

linting_colors ==
    [k \in {"refactor", "convention", "warning", "error"} |->
        IF k = "refactor" THEN "#765432"
        ELSE IF k = "convention" THEN "#222266"
        ELSE IF k = "warning" THEN "#99aa22"
        ELSE "#ee3322"]

window_color == "background_window_color"

\* linting_severities.index(kind), or -1 (lines 771-773).
SeverityIndex(kind) ==
    IF \E i \in 1..Len(linting_severities) : linting_severities[i] = kind
    THEN (CHOOSE i \in 1..Len(linting_severities) : linting_severities[i] = kind) - 1
    ELSE -1

\* The keys lines 770-775 read of a diagnostic.
GutterKeys == {"line_number", "kind", "message", "lint_code"}

\* Lines 768-779 from the i-th diagnostic on, for line n: the severity and
\* the tooltip found, or a KeyError.
RECURSIVE GutterScan(_, _, _, _, _)
GutterScan(results, n, i, severity, tooltip) ==
    IF i > Len(results) THEN [severity |-> severity, tooltip |-> tooltip, error |-> "none"]
    ELSE IF "line_number" \notin DOMAIN results[i]
    THEN [severity |-> severity, tooltip |-> tooltip, error |-> "KeyError"]
    ELSE IF results[i]["line_number"] # n
    THEN GutterScan(results, n, i + 1, severity, tooltip)
    ELSE IF ~(GutterKeys \subseteq DOMAIN results[i])
    THEN [severity |-> severity, tooltip |-> tooltip, error |-> "KeyError"]
    ELSE IF SeverityIndex(results[i]["kind"]) >= severity
    THEN GutterScan(results, n, i + 1, SeverityIndex(results[i]["kind"]),
                    <<results[i]["message"], results[i]["lint_code"]>>)
    ELSE GutterScan(results, n, i + 1, severity, tooltip)

\* Lines 781-787.
GutterColor(severity) ==
    IF severity < 0 THEN window_color
    ELSE linting_colors[linting_severities[severity + 1]]

GutterTooltip(found) == IF found.severity < 0 THEN "" ELSE found.tooltip

\* Lines 764-799 from block n on: gutter holds what is painted, which is the
\* window colour everywhere after line 755.  An exception ends the paint
\* event.
RECURSIVE PaintFrom(_, _, _, _)
PaintedLine(results, count, n, painted, found) ==
    IF found.error # "none" THEN painted
    ELSE PaintFrom(results, count, n + 1,
                   [gutter |-> [painted.gutter EXCEPT ![n] = GutterColor(found.severity)],
                    tooltips |-> [painted.tooltips EXCEPT ![n] = GutterTooltip(found)]])

PaintFrom(results, count, n, painted) ==
    IF n > count THEN painted
    ELSE PaintedLine(results, count, n, painted, GutterScan(results, n, 1, -3, ""))

\* The gutter after painter.fillRect(event.rect(), window_color) (line 755).
Unpainted(count) ==
    [gutter |-> [n \in 1..count |-> window_color], tooltips |-> [n \in 1..count |-> ""]]

Painted(results, count) == PaintFrom(results, count, 1, Unpainted(count))

\* line_number_area_paint_event (lines 749-799), all blocks being visible,
\* the first time it runs on the diagnostics at hand.
line_number_area_paint_event ==
    /\ lint.gutter = <<>>
    /\ lint' = [lint EXCEPT
                  !.gutter = Painted(lint.linting_results, blockCount(text)).gutter,
                  !.line_number_area_linting_tooltips =
                      Painted(lint.linting_results, blockCount(text)).tooltips]
    /\ UNCHANGED <<text, editorVars, highlightVars, everOpen, pc, hb, file_tabs>>

-----------------------------------------------------------------------------
(* The gutter painted for a document whose diagnostics have arrived. *)

GutterMaxBlocks == 2
GutterMaxResults == 2
LintTypes == {"convention", "refactor", "warning", "error", "info"}
LintMessages == {"m1", "m2"}

Diagnostics(count) ==
    {Diagnostic(type, line, 0, message) :
        type \in LintTypes, line \in 1..count, message \in LintMessages}

ResultLists(diagnostics, n) == UNION {[1..k -> diagnostics] : k \in 0..n}

InitGutter ==
    /\ text = Repeat(NL, GutterMaxBlocks - 1)
    /\ anchor = 0 /\ position = 0 /\ hist = <<>>
    /\ userState = [b \in 1..GutterMaxBlocks |-> 0]
    /\ stateIn = [b \in 1..GutterMaxBlocks |-> IF b = 1 THEN -1 ELSE 0]
    /\ formats = [b \in 1..GutterMaxBlocks |-> <<>>]
    /\ string_locations = <<>>
    /\ relexAt = GutterMaxBlocks + 1 /\ relexEnd = GutterMaxBlocks /\ relexForce = FALSE
    /\ everOpen = FALSE
    /\ pc = "idle" /\ hb = HbIdle
    /\ \E results \in ResultLists(Diagnostics(GutterMaxBlocks), GutterMaxResults) :
          lint = [NoLint EXCEPT !.linting_results = results]
    /\ file_tabs = NoTabs

NextGutter == line_number_area_paint_event

SpecGutter == InitGutter /\ [][NextGutter]_vars

\* The severity of a diagnostic (convention < refactor < warning < error),
\* 0 for an unknown one.
Severity(d) ==
    IF d["type"] = "convention" THEN 1
    ELSE IF d["type"] = "refactor" THEN 2
    ELSE IF d["type"] = "warning" THEN 3
    ELSE IF d["type"] = "error" THEN 4
    ELSE 0

SeverityColor(sev) ==
    IF sev = 1 THEN "#222266"
    ELSE IF sev = 2 THEN "#765432"
    ELSE IF sev = 3 THEN "#99aa22"
    ELSE IF sev = 4 THEN "#ee3322"
    ELSE "background_window_color"

OnLine(results, n) == {i \in 1..Len(results) : results[i]["line"] = n}

Highest(results, n) ==
    IF OnLine(results, n) = {} THEN 0
    ELSE CHOOSE sev \in 0..4 :
            /\ \E i \in OnLine(results, n) : Severity(results[i]) = sev
            /\ \A i \in OnLine(results, n) : Severity(results[i]) <= sev

LastHighest(results, n) ==
    CHOOSE i \in OnLine(results, n) :
        /\ Severity(results[i]) = Highest(results, n)
        /\ \A j \in OnLine(results, n) : Severity(results[j]) = Highest(results, n) => j <= i

\* C21: the gutter colour painted for a line is the colour of the highest
\* severity among the diagnostics of that line, whatever their order in
\* the list, and the tooltip is that of the last-listed diagnostic of that
\* severity; a line with no diagnostic of a known severity gets the window
\* background colour.
GutterShowsHighestSeverity ==
    lint.gutter # <<>> =>
        \A n \in 1..blockCount(text) :
            /\ lint.gutter[n] = SeverityColor(Highest(lint.linting_results, n))
            /\ Highest(lint.linting_results, n) > 0 =>
                  lint.line_number_area_linting_tooltips[n][1]
                      = lint.linting_results[LastHighest(lint.linting_results, n)]["message"]

-----------------------------------------------------------------------------
(* highlightBlock: the diagnostics of the block underlined (lines 300-331) *)

\* \w of Python's re.
WordChars ==
    {"a", "b", "c", "d", "e", "f", "g", "h", "i", "j", "k", "l", "m", "n", "o", "p",
     "q", "r", "s", "t", "u", "v", "w", "x", "y", "z",
     "A", "B", "C", "D", "E", "F", "G", "H", "I", "J", "K", "L", "M", "N", "O", "P",
     "Q", "R", "S", "T", "U", "V", "W", "X", "Y", "Z",
     "0", "1", "2", "3", "4", "5", "6", "7", "8", "9", "_"}

\* \b at offset p of s: a word character on one side only.
WordBoundary(s, p) ==
    (p > 0 /\ s[p] \in WordChars) # (p < Len(s) /\ s[p + 1] \in WordChars)

\* len(re.findall(r".+\b", s)[0]), or -1 when nothing is found: the match
\* starts at 0 and ends at the last word boundary.
FirstMatchLength(s) ==
    IF \E p \in 1..Len(s) : WordBoundary(s, p)
    THEN CHOOSE p \in 1..Len(s) :
            WordBoundary(s, p) /\ \A q \in (p + 1)..Len(s) : ~WordBoundary(s, q)
    ELSE -1

\* line_text[result['column']:].lstrip() (line 312)
line_after_index(line_text, column) ==
    SubSeq(PySlice(line_text, column, Len(line_text)),
           LeadingWs(PySlice(line_text, column, Len(line_text))) + 1,
           Len(PySlice(line_text, column, Len(line_text))))

\* A clamp to the offset after the last character.
ClampPastEnd(line_text) == Len(line_text)

\* Line 320.
ClampPosition(line_text) == Len(line_text) - 1

\* Lines 310-321: position and sr_len, found being the length of the first
\* match in after.
LintSpan(line_text, column, after, found) ==
    IF found # -1 THEN [position |-> column, sr_len |-> found]
    ELSE IF Len(after) = 0 \/ column >= Len(line_text)
    THEN [position |-> ClampPosition(line_text), sr_len |-> 1]
    ELSE [position |-> column, sr_len |-> Len(after)]

LintRange(line_text, column) ==
    LintSpan(line_text, column, line_after_index(line_text, column),
             FirstMatchLength(line_after_index(line_text, column)))

\* Lines 130-135 and 305-306 of syntax.py.
underline_colors ==
    [k \in {"refactor", "convention", "warning", "error"} |->
        IF k = "refactor" THEN "#765432"
        ELSE IF k = "convention" THEN "#555599"
        ELSE IF k = "warning" THEN "#99aa22"
        ELSE "#ee3322"]

\* self.linting_colors.get(result['type'], _color) (line 323)
lint_color(result) ==
    IF result["type"] \in DOMAIN underline_colors THEN underline_colors[result["type"]]
    ELSE "gray"

\* Line 302.
RECURSIVE linting_results_for_line(_, _)
linting_results_for_line(results, line_number) ==
    IF results = <<>> THEN <<>>
    ELSE (IF Head(results)["line"] = line_number THEN <<Head(results)>> ELSE <<>>)
         \o linting_results_for_line(Tail(results), line_number)

\* Lines 325-331: setFormat(position_index, 1, _format) for the indexes of
\* span; an index outside the block is refused by setFormat.
Underlined(under, span, color) ==
    [i \in 1..Len(under) |->
        IF span.position <= i - 1 /\ i - 1 < span.position + span.sr_len THEN color
        ELSE under[i]]

\* Lines 309-331 from the k-th diagnostic of the line on.
RECURSIVE LintFormats(_, _, _, _)
LintFormats(line_text, results, k, under) ==
    IF k > Len(results) THEN under
    ELSE LintFormats(line_text, results, k + 1,
                     Underlined(under, LintRange(line_text, results[k]["column"]),
                                lint_color(results[k])))

LintRanges(line_text, results) ==
    [k \in 1..Len(results) |-> LintRange(line_text, results[k]["column"])]

\* highlightBlock on block relexAt, its diagnostics included.
BlockLinted(b, results) ==
    lint' = [lint EXCEPT
                !.ranges[b] = LintRanges(Blocks[b], results),
                !.underline[b] = LintFormats(Blocks[b], results, 1,
                                             [i \in 1..Len(Blocks[b]) |-> "none"])]

HighlightLinted ==
    /\ RelexPending
    /\ BlockHighlighted(relexAt,
                        highlightBlock(Blocks[relexAt],
                                       previousBlockState(userState, relexAt),
                                       BlockPosition(Blocks, relexAt)))
    /\ BlockLinted(relexAt, linting_results_for_line(lint.highlighter_results, relexAt))
    /\ UNCHANGED <<text, editorVars, relexEnd, everOpen, pc, hb, file_tabs>>

-----------------------------------------------------------------------------
(* A line re-highlighted after its diagnostics have arrived. *)

UnderlineMaxLen == 3
UnderlineMaxResults == 2
UnderlineChars == {"a", SP}
UnderlineTypes == {"convention", "error"}

UnderlineDiagnostics(t) ==
    {Diagnostic(type, 1, column, "m1") :
        type \in UnderlineTypes, column \in 0..(Len(t) + 1)}
    \cup {Diagnostic("info", 2, 0, "m1")}

InitUnderline ==
    /\ \E t \in Texts(UnderlineChars, UnderlineMaxLen) :
          /\ Unhighlighted(t)
          /\ \E results \in ResultLists(UnderlineDiagnostics(t), UnderlineMaxResults) :
                lint = [NoLint EXCEPT !.highlighter_results = results,
                                      !.ranges = <<<<>>>>,
                                      !.underline = <<[i \in 1..Len(t) |-> "none"]>>]
    /\ pc = "idle" /\ hb = HbIdle
    /\ file_tabs = NoTabs

NextUnderline == HighlightLinted

SpecUnderline == InitUnderline /\ [][NextUnderline]_vars

\* The diagnostics of line b, in the order of the list, and the characters
\* (1-based) the k-th of them decorates.
OfLine(b) == linting_results_for_line(lint.highlighter_results, b)

Covers(b, k, i) ==
    /\ lint.ranges[b][k].position <= i - 1
    /\ i - 1 < lint.ranges[b][k].position + lint.ranges[b][k].sr_len

Covering(b, i) == {k \in 1..Len(OfLine(b)) : Covers(b, k, i)}

UnderlineColor(sev) ==
    IF sev = 1 THEN "#555599"
    ELSE IF sev = 2 THEN "#765432"
    ELSE IF sev = 3 THEN "#99aa22"
    ELSE IF sev = 4 THEN "#ee3322"
    ELSE "gray"

HighestCovering(b, i) ==
    CHOOSE sev \in 0..4 :
        /\ \E k \in Covering(b, i) : Severity(OfLine(b)[k]) = sev
        /\ \A k \in Covering(b, i) : Severity(OfLine(b)[k]) <= sev

\* C22: when two or more diagnostics of one line decorate overlapping
\* character ranges, each character in the overlap carries the underline
\* colour of the highest-severity diagnostic covering it, independent of
\* the order of the diagnostics in the list.
HighestSeverityUnderlines ==
    RelexDone =>
        \A b \in 1..Len(Blocks) : \A i \in 1..Len(Blocks[b]) :
            Cardinality(Covering(b, i)) >= 2
            => lint.underline[b][i] = UnderlineColor(HighestCovering(b, i))

\* C27: for every line text, of any length, and every diagnostic on that
\* line whose column is at or past the end of the line, the decoration
\* covers exactly one character, at the line's last character position,
\* and every decorated index lies inside the line.
PastEnd(b, k) == OfLine(b)[k]["column"] >= Len(Blocks[b])

OneCharacterAtEnd(b, k) ==
    /\ lint.ranges[b][k].sr_len = 1
    /\ lint.ranges[b][k].position = Len(Blocks[b]) - 1
    /\ lint.ranges[b][k].position >= 0
    /\ lint.underline[b][Len(Blocks[b])] # "none"

PastEndUnderlinesLastCharacter ==
    RelexDone =>
        \A b \in 1..Len(Blocks) : \A k \in 1..Len(OfLine(b)) :
            PastEnd(b, k) => OneCharacterAtEnd(b, k)

\* C27 as highlightBlock has it: on a line that is not empty.  On an empty
\* line the index computed is -1 and nothing is decorated.
PastEndUnderlinesOfNonEmptyLine ==
    RelexDone =>
        \A b \in 1..Len(Blocks) : \A k \in 1..Len(OfLine(b)) :
            PastEnd(b, k) =>
                IF Len(Blocks[b]) > 0 THEN OneCharacterAtEnd(b, k)
                ELSE lint.ranges[b][k] = [position |-> -1, sr_len |-> 1]

\* A diagnostic two columns past the end of "a a".
PastEndWitness ==
    /\ RelexDone
    /\ text = <<"a", SP, "a">>
    /\ Len(lint.highlighter_results) = 1
    /\ lint.highlighter_results[1]["column"] = 4
    /\ lint.underline[1] = <<"none", "none", lint_color(lint.highlighter_results[1])>>

-----------------------------------------------------------------------------
(* QCodeFileTabs: the tabs of the open files and their temp files *)

\* QTabWidget.tabText: the empty string for an index that is no tab.
tabText(ft, index) ==
    IF 0 <= index /\ index < Len(ft.tabs) THEN ft.tabs[index + 1] ELSE ""

\* dict.update({key: value})
Updated(dict, key, value) ==
    [k \in DOMAIN dict \cup {key} |-> IF k = key THEN value ELSE dict[k]]

\* save_to_temp (lines 945-960): the editor's text written to the temp file
\* of the tab at index; last_tab.index('.') raises for a name without a dot.
save_to_temp(ft, index, code) ==
    IF tabText(ft, index) \notin DOMAIN ft.temp_files /\ tabText(ft, index) = ""
    THEN [ft EXCEPT !.raised = "ValueError"]
    ELSE [ft EXCEPT !.temp_files = Updated(@, tabText(ft, index), code)]

\* Lines 973-987 for the file of next_tab: its temp file if it has one, else
\* the file of the project.
NextTempFile(ft, next_tab) ==
    IF next_tab \in DOMAIN ft.temp_files THEN ft.temp_files[next_tab]
    ELSE ft.disk[next_tab]

Selected(ft, index) ==
    [ft |-> [ft EXCEPT !.last_tab_index = <<index>>,
                       !.last_file_selected = <<tabText(ft, index)>>,
                       !.seen = Updated(@, tabText(ft, index),
                                        NextTempFile(ft, tabText(ft, index)))],
     code |-> NextTempFile(ft, tabText(ft, index)),
     loaded |-> TRUE]

Unselected(ft, code) == [ft |-> ft, code |-> code, loaded |-> FALSE]

\* file_selected_by_index (lines 962-987), the slot of currentChanged.
file_selected_by_index(ft, index, code) ==
    IF index = -1 THEN Unselected(ft, code)
    ELSE IF ft.last_tab_index = <<>> THEN Selected(ft, index)
    ELSE IF save_to_temp(ft, ft.last_tab_index[1], code).raised # "none"
    THEN Unselected(save_to_temp(ft, ft.last_tab_index[1], code), code)
    ELSE Selected(save_to_temp(ft, ft.last_tab_index[1], code), index)

\* QTabWidget.setCurrentIndex: currentChanged is emitted when the index is a
\* tab other than the current one.
setCurrentIndex(ft, index, code) ==
    IF 0 <= index /\ index < Len(ft.tabs) /\ index # ft.currentIndex
    THEN file_selected_by_index([ft EXCEPT !.currentIndex = index], index, code)
    ELSE Unselected(ft, code)

indexOf(ft, name) == (CHOOSE i \in 1..Len(ft.tabs) : ft.tabs[i] = name) - 1

\* open_tab (lines 891-906); addTab makes the first tab the current one.
open_tab(ft, name, code) ==
    IF \E i \in 1..Len(ft.tabs) : ft.tabs[i] = name
    THEN setCurrentIndex(ft, indexOf(ft, name), code)
    ELSE setCurrentIndex([ft EXCEPT !.tabs = Append(@, name)], Len(ft.tabs), code)

\* QTabWidget.removeTab: the tab to the right of a removed current tab
\* becomes current, the current index follows a tab removed to its left.
removeTab(ft, index, code) ==
    IF index = ft.currentIndex
    THEN setCurrentIndex([ft EXCEPT !.tabs = RemoveAt(@, index, 1),
                                    !.currentIndex = -1],
                         Min(index, Len(ft.tabs) - 2), code)
    ELSE IF index < ft.currentIndex
    THEN setCurrentIndex([ft EXCEPT !.tabs = RemoveAt(@, index, 1)],
                         ft.currentIndex - 1, code)
    ELSE Unselected([ft EXCEPT !.tabs = RemoveAt(@, index, 1)], code)

\* Lines 915-920 once the temp file is written.
ClosedAfterSave(ft, index, code) ==
    IF ft.raised # "none" THEN Unselected(ft, code)
    ELSE removeTab([ft EXCEPT !.last_tab_index =
                                  IF @ = <<index>> THEN <<>> ELSE @],
                   index, code)

\* close_tab (lines 908-926), the slot of tabCloseRequested.
close_tab(ft, index, code) == ClosedAfterSave(save_to_temp(ft, index, code), index, code)

\* The names with the extension .py.
PythonFiles == {"a.py", "b.py", "c.py"}

\* set_syntax_highlighter (lines 989-1011) for a name that is no JSON file.
HighlighterFor(filename) ==
    IF filename \in PythonFiles THEN "PythonHighlighter" ELSE "None"

\* The handlers on the tabs and the editor: what they leave of both.  A new
\* highlighter is made for the file selected (lines 978-980, 1001-1006).
TabsHandled(after) ==
    /\ file_tabs' = after.ft
    /\ text' = after.code
    /\ IF after.loaded
       THEN /\ anchor' = 0 /\ position' = 0 /\ UNCHANGED hist
            /\ lint' = [lint EXCEPT !.linting_results = <<>>,
                                    !.editor_of = <<>>,
                                    !.line_number_area_linting_tooltips = <<>>,
                                    !.highlighter = HighlighterFor(after.ft.last_file_selected[1]),
                                    !.highlighter_results = <<>>,
                                    !.highlighter_of = <<>>]
       ELSE UNCHANGED <<editorVars, lint>>
    /\ UNCHANGED <<highlightVars, everOpen, pc, hb>>

TabsRunning == file_tabs.raised = "none"

OpenTab(name) ==
    /\ TabsRunning
    /\ TabsHandled(open_tab(file_tabs, name, text))

SelectTab(index) ==
    /\ TabsRunning
    /\ index \in 0..(Len(file_tabs.tabs) - 1)
    /\ TabsHandled(setCurrentIndex(file_tabs, index, text))

CloseTab(index) ==
    /\ TabsRunning
    /\ index \in 0..(Len(file_tabs.tabs) - 1)
    /\ TabsHandled(close_tab(file_tabs, index, text))

TabsMaxLen == 2

\* A character typed at the end of the file shown.
TypeInTab ==
    /\ TabsRunning
    /\ file_tabs.currentIndex # -1
    /\ Len(text) < TabsMaxLen
    /\ text' = Append(text, "x")
    /\ file_tabs' = [file_tabs EXCEPT
                        !.seen = Updated(@, tabText(file_tabs, file_tabs.currentIndex),
                                         Append(text, "x"))]
    /\ anchor' = Len(text) + 1 /\ position' = Len(text) + 1 /\ UNCHANGED hist
    /\ UNCHANGED <<highlightVars, everOpen, pc, hb, lint>>

TabNames == {"a.py", "b.py", "c.py"}

\* The files of the project, each with a text of its own.
ProjectFiles ==
    [name \in TabNames |->
        IF name = "a.py" THEN <<"a">> ELSE IF name = "b.py" THEN <<"b">> ELSE <<>>]

InitTabs ==
    /\ Unhighlighted(<<>>)
    /\ pc = "idle" /\ hb = HbIdle
    /\ lint = NoLint
    /\ file_tabs = [NoTabs EXCEPT !.disk = ProjectFiles]

NextTabs ==
    \/ \E name \in TabNames : OpenTab(name)
    \/ \E index \in 0..(Cardinality(TabNames) - 1) : SelectTab(index)
    \/ \E index \in 0..(Cardinality(TabNames) - 1) : CloseTab(index)
    \/ TypeInTab

SpecTabs == InitTabs /\ [][NextTabs]_vars

\* The name of the tab shown, "" when there is none.
TabShown == tabText(file_tabs, file_tabs.currentIndex)

\* C30: after any sequence of open_tab, tab selection and close_tab, also
\* when a tab other than the selected one or a tab left of the selected one
\* is closed, the temp file recorded for a tab name holds the text that was
\* shown while that tab was selected; no handler stops with an exception and
\* save_to_temp never writes the text of one tab into the temp file of
\* another.
TempFileHoldsTabText ==
    /\ file_tabs.raised = "none"
    /\ \A name \in DOMAIN file_tabs.temp_files :
          name # TabShown => file_tabs.temp_files[name] = file_tabs.seen[name]

-----------------------------------------------------------------------------
(* LintingWorker in its thread, worker_finished and the editor in the GUI   *)
(* thread.  Beside each list of diagnostics the model keeps the cycle of    *)
(* the worker that produced it and the file and the text it was made from:  *)
(* editor_of for the editor's list, highlighter_of for the highlighter's.   *)

\* What pylint reports, here a missing docstring for every text that is not
\* empty (lines 103-130 of linting.py).
Pylint(code) ==
    IF code = <<>> THEN <<>> ELSE <<Diagnostic("convention", 1, 0, "m1")>>

LintMaxCycles == 2
LintMaxLen == 2

\* Lines 184 and 192: a file is selected and its name ends with .py.
LintedFile(current_file) ==
    IF current_file = <<>> THEN FALSE ELSE current_file[1] \in PythonFiles

WorkerAt(label) == lint.worker.pc = label

\* Lines 167-181: the loop begins and reads the file selected.
WorkerReadsFile ==
    /\ WorkerAt("sleep")
    /\ lint.worker.cycle < LintMaxCycles
    /\ lint' = [lint EXCEPT !.worker.current_file = file_tabs.last_file_selected,
                            !.worker.pc = "guard"]
    /\ UNCHANGED <<text, editorVars, highlightVars, everOpen, pc, hb, file_tabs>>

\* Lines 184-197 and 162-163: no file or no Python file, clear_linting
\* empties the editor's list and tooltips.
WorkerClearsEditor ==
    /\ WorkerAt("guard")
    /\ ~LintedFile(lint.worker.current_file)
    /\ lint' = [lint EXCEPT !.linting_results = <<>>,
                            !.editor_of = <<>>,
                            !.line_number_area_linting_tooltips = <<>>,
                            !.worker.pc = "clear"]
    /\ UNCHANGED <<text, editorVars, highlightVars, everOpen, pc, hb, file_tabs>>

\* Lines 164-165: clear_linting empties the highlighter's list, if there is
\* a highlighter; the loop continues.
WorkerClearsHighlighter ==
    /\ WorkerAt("clear")
    /\ lint' = [lint EXCEPT
                   !.highlighter_results =
                       IF lint.highlighter # "None" THEN <<>> ELSE @,
                   !.highlighter_of =
                       IF lint.highlighter # "None" THEN <<>> ELSE @,
                   !.worker.cycle = @ + 1,
                   !.worker.pc = "sleep"]
    /\ UNCHANGED <<text, editorVars, highlightVars, everOpen, pc, hb, file_tabs>>

\* Line 205: the text of the editor read for the linter.
WorkerReadsCode ==
    /\ WorkerAt("guard")
    /\ LintedFile(lint.worker.current_file)
    /\ lint' = [lint EXCEPT !.worker.code = text, !.worker.pc = "lint"]
    /\ UNCHANGED <<text, editorVars, highlightVars, everOpen, pc, hb, file_tabs>>

\* run_linter_on_code up to line 130: the worker's list replaced.
WorkerLints ==
    /\ WorkerAt("lint")
    /\ lint' = [lint EXCEPT
                   !.worker.linting_results = Pylint(lint.worker.code),
                   !.worker.of = <<[cycle |-> lint.worker.cycle,
                                    file |-> lint.worker.current_file[1],
                                    code |-> lint.worker.code]>>,
                   !.worker.pc = "emit"]
    /\ UNCHANGED <<text, editorVars, highlightVars, everOpen, pc, hb, file_tabs>>

\* Line 147: finished is emitted and queued for the GUI thread.
WorkerEmitsFinished ==
    /\ WorkerAt("emit")
    /\ lint' = [lint EXCEPT !.finished = @ + 1,
                            !.worker.cycle = @ + 1,
                            !.worker.pc = "sleep"]
    /\ UNCHANGED <<text, editorVars, highlightVars, everOpen, pc, hb, file_tabs>>

GuiAt(label) == lint.gui = label /\ TabsRunning

\* worker_finished, line 741: the editor takes the worker's list.
worker_finished ==
    /\ GuiAt("idle")
    /\ lint.finished > 0
    /\ lint' = [lint EXCEPT !.finished = @ - 1,
                            !.linting_results = lint.worker.linting_results,
                            !.editor_of = lint.worker.of,
                            !.gui = "applying"]
    /\ UNCHANGED <<text, editorVars, highlightVars, everOpen, pc, hb, file_tabs>>

\* worker_finished, lines 742-746: the highlighter takes the list the worker
\* has by now, the document is highlighted and painted again.
worker_finished_highlighter ==
    /\ GuiAt("applying")
    /\ lint' = [lint EXCEPT
                   !.highlighter_results =
                       IF lint.highlighter # "None" THEN lint.worker.linting_results ELSE @,
                   !.highlighter_of =
                       IF lint.highlighter # "None" THEN lint.worker.of ELSE @,
                   !.gui = "idle"]
    /\ UNCHANGED <<text, editorVars, highlightVars, everOpen, pc, hb, file_tabs>>

\* A key typed in the file shown: the document changes (keyPressEvent) ...
LintKeyTyped ==
    /\ GuiAt("idle")
    /\ file_tabs.currentIndex # -1
    /\ Len(text) < LintMaxLen
    /\ text' = Append(text, "x")
    /\ anchor' = Len(text) + 1 /\ position' = Len(text) + 1 /\ UNCHANGED hist
    /\ file_tabs' = [file_tabs EXCEPT
                        !.seen = Updated(@, tabText(file_tabs, file_tabs.currentIndex),
                                         Append(text, "x"))]
    /\ lint' = [lint EXCEPT !.gui = "typed"]
    /\ UNCHANGED <<highlightVars, everOpen, pc, hb>>

\* ... and highlightBlock reads the highlighter's list for the changed block
\* (line 302 of syntax.py).
LintKeyHighlighted ==
    /\ GuiAt("typed")
    /\ lint' = [lint EXCEPT !.gui = "idle"]
    /\ UNCHANGED <<text, editorVars, highlightVars, everOpen, pc, hb, file_tabs>>

LintOpenTab(name) == GuiAt("idle") /\ OpenTab(name)

LintNames == {"a.py", "t.txt"}

LintFiles == [name \in LintNames |-> IF name = "a.py" THEN <<"a">> ELSE <<>>]

InitLinting ==
    /\ Unhighlighted(<<>>)
    /\ pc = "idle" /\ hb = HbIdle
    /\ lint = NoLint
    /\ file_tabs = [NoTabs EXCEPT !.disk = LintFiles]

NextLinting ==
    \/ WorkerReadsFile
    \/ WorkerClearsEditor
    \/ WorkerClearsHighlighter
    \/ WorkerReadsCode
    \/ WorkerLints
    \/ WorkerEmitsFinished
    \/ worker_finished
    \/ worker_finished_highlighter
    \/ LintKeyTyped
    \/ LintKeyHighlighted
    \/ \E name \in LintNames : LintOpenTab(name)

SpecLinting == InitLinting /\ [][NextLinting]_vars

\* worker_finished takes a list for the editor in this step.
ResultApplied == lint.gui = "idle" /\ lint'.gui = "applying"

StillCurrent(of) ==
    /\ of # <<>>
    /\ of[1].file = TabShown
    /\ of[1].code = text

\* C23: a lint result computed from text T of file F is applied to the
\* editor and the highlighter only if F is still the selected file and the
\* buffer has not been edited since T was read; otherwise it is discarded.
LintResultAppliedOnlyIfCurrent ==
    [][ResultApplied => StillCurrent(lint'.editor_of)]_vars

Lists == <<lint.linting_results, lint.editor_of, lint.line_number_area_linting_tooltips,
           lint.highlighter_results, lint.highlighter_of>>

\* Between the change of the document by a key and the highlighting that
\* follows it, no list of diagnostics changes.
KeystrokeUndisturbed == lint.gui = "typed" => UNCHANGED Lists

\* Outside worker_finished the two lists are of one cycle of the worker.
SameCycle ==
    (lint.gui # "applying" /\ lint.editor_of # <<>> /\ lint.highlighter_of # <<>>)
    => lint.editor_of[1].cycle = lint.highlighter_of[1].cycle

\* C24: the two write paths are mutually exclusive: the worker's replacing
\* or clearing of the lists never interleaves with a keystroke's change of
\* the document and its re-highlighting on the GUI thread, and each
\* replacement is atomic, the editor's and the highlighter's list never
\* holding the results of different cycles of the linter.
LintWritesAreExclusive == [][KeystrokeUndisturbed]_vars /\ []SameCycle

-----------------------------------------------------------------------------
(* Triple quotes inside strings and at the end of a literal *)

\* The offsets of the triple-quote delimiters of line l.
Delimiters(l) ==
    {p \in 0..(Len(l) - 3) : \E q \in {SQ, DQ} : StartsAt(l, p, Triple(q))}

\* The delimiter at p lies inside a single-line string literal of l.
InsideSingleLineString(l, p) ==
    \E span \in Range(RefLex(l, 0).spans) :
        /\ span[1] < p /\ p + 3 < span[2]
        /\ ~StartsAt(l, span[1], Triple(At(l, span[1])))

QuotesDelimiters(l) ==
    /\ Delimiters(l) # {}
    /\ \A p \in Delimiters(l) : InsideSingleLineString(l, p)

NoTripleQuoteSpan(b) == \A c \in 1..Len(formats[b]) : formats[b][c] # "string2"

\* C25: a triple-quote delimiter that lies inside an already recognized
\* single-line string literal of the line is not treated as the opener of a
\* triple-quoted literal: the outbound state of the line stays None and no
\* triple-quote span is recorded for it.
QuotedDelimiterOpensNothing ==
    ~RelexPending =>
        \A b \in 1..Len(Blocks) :
            (stateIn[b] \in {-1, 0} /\ QuotesDelimiters(Blocks[b]))
            => (userState[b] = 0 /\ NoTripleQuoteSpan(b))

CloseMaxTokens == 3

\* A literal opened on the first line and a second line.
InitClose ==
    /\ \E q \in {SQ, DQ}, l \in LinesOf(RelexTokens, CloseMaxTokens) :
          Unhighlighted(JoinLines(<<Triple(q), l>>))
    /\ pc = "idle" /\ hb = HbIdle /\ IdeIdle

NextClose == HighlightNext

SpecClose == InitClose /\ [][NextClose]_vars

\* The offset after the first delimiter of state st on line l, -1 without one.
ClosedAt(l, st) ==
    IF FindSub(l, Triple(QuoteOf(st)), 0) = -1 THEN -1
    ELSE FindSub(l, Triple(QuoteOf(st)), 0) + 3

NoQuoteFrom(l, p) == \A i \in (p + 1)..Len(l) : l[i] \notin {SQ, DQ}

\* C26: a line highlighted with inbound state InTripleSingleQuote or
\* InTripleDoubleQuote on which the matching closing delimiter occurs has the
\* characters from offset 0 to the end of that delimiter styled as string and
\* the outbound state None, whatever the characters before the delimiter
\* are, triple quotes of the other kind included.  (Stated for lines with no
\* quote after the delimiter.)
ClosingDelimiterEndsLiteral ==
    RelexDone =>
        \A b \in 1..Len(Blocks) :
            (/\ stateIn[b] \in {1, 2}
             /\ ClosedAt(Blocks[b], stateIn[b]) # -1
             /\ NoQuoteFrom(Blocks[b], ClosedAt(Blocks[b], stateIn[b])))
            => /\ userState[b] = 0
               /\ \A c \in 1..ClosedAt(Blocks[b], stateIn[b]) : formats[b][c] = "string2"

-----------------------------------------------------------------------------
(* The cursor and the selection after Shift-Tab *)

ColumnOf(h) == positionInBlock(h.text, h.position)

\* The characters Shift-Tab removes from line b of the buffer of h.
Removed(h, b) == Min(4, LeadingWhitespace(Lines(h)[b]))

\* C28: after Shift-Tab with no selection the cursor is still on the line it
\* was on before the key, at column max(0, old column - characters removed);
\* it never moves to a line before or to a negative offset, also when it was
\* inside the leading whitespace.
BacktabKeepsCursorOnLine ==
    (AfterKey("Backtab") /\ ~HadSelection(LastKey)) =>
        /\ anchor = position
        /\ position >= 0
        /\ LineOf(Snapshot("now"), position) = LineOf(LastKey, LastKey.position)
        /\ positionInBlock(text, position)
               = Max(0, ColumnOf(LastKey)
                        - Removed(LastKey, LineOf(LastKey, LastKey.position)))

\* C29: after Shift-Tab with a selection that is not empty, the selection
\* runs from the start of the first touched line to the end of the last
\* touched line, and both ends are offsets of the shortened document, for
\* every selection, also one whose first touched line is line 0.
BacktabSelectsTouchedLines ==
    (AfterKey("Backtab") /\ HadSelection(LastKey)) =>
        /\ anchor \in 0..Len(text)
        /\ position \in 0..Len(text)
        /\ anchor = BlockPosition(Blocks, FirstTouched(LastKey))
        /\ position = BlockPosition(Blocks, LastTouched(LastKey))
                      + Len(Blocks[LastTouched(LastKey)])

====
